---- MODULE Spec2Model ----
(***************************************************************************)
(* The reasoning core of TestPilot_AI (package agentic_reasoning): one     *)
(* reasoning cycle is interpret -> detect_anomalies -> route ->            *)
(* (plan_action -> learn), run over one AgentState that an external driver *)
(* advances between cycles.                                                *)
(*                                                                         *)
(* Representation of Python values:                                        *)
(*   str        a sequence of tokens (chunks of characters); "" is <<>>,   *)
(*              concatenation is \o, so that strip(), lower(), endswith()  *)
(*              and "in" are computed, not tabulated                       *)
(*   Optional   None is <<>>, a present value x is <<x>>                   *)
(*   dict       a function from keys (str) to values; {} is <<>>           *)
(*   Any        a tagged record [t |-> type, v |-> value]                  *)
(*   float      fixed point: risk scores in 1/RiskScale, statistics in     *)
(*              1/StatScale, rounded towards minus infinity                *)
(***************************************************************************)
EXTENDS Integers, Sequences, FiniteSets, TLC

VARIABLES
    ui_state,           \* AgentState.ui_state
    execution_context,  \* AgentState.execution_context
    knowledge,          \* AgentState.knowledge
    decision,           \* AgentState.decision
    anomalies,          \* AgentState.anomalies
    pc,                 \* the node of the graph that runs next
    interpretation,     \* the result of the last interpret_state call
    cycles,             \* graph invocations made on this AgentState so far
    args,               \* the arguments of a function called on its own
    returned,           \* what that call returned
    observed            \* the observations the driver supplied, oldest first

AgentState == <<ui_state, execution_context, knowledge, decision, anomalies>>
vars == <<ui_state, execution_context, knowledge, decision, anomalies,
          pc, interpretation, cycles, args, returned, observed>>

----------------------------------------------------------------------------
(* Python values *)

None == <<>>
Some(x) == <<x>>
The(o) == o[1]
EmptyDict == <<>>
Get(d, k, default) == IF k \in DOMAIN d THEN d[k] ELSE default

W(t) == <<t>>                       \* the one-token string

Whitespace == {" "}

RECURSIVE lstrip(_)
lstrip(s) == IF s # <<>> /\ Head(s) \in Whitespace THEN lstrip(Tail(s)) ELSE s

RECURSIVE rstrip(_)
rstrip(s) ==
    IF s # <<>> /\ s[Len(s)] \in Whitespace
    THEN rstrip(SubSeq(s, 1, Len(s) - 1))
    ELSE s

strip(s) == rstrip(lstrip(s))

\* list[-n:] if len(list) >= n else list   (the same list as list[-n:])
LastN(s, n) == IF Len(s) >= n THEN SubSeq(s, Len(s) - n + 1, Len(s)) ELSE s

\* list.count(x)
RECURSIVE list_count(_, _)
list_count(s, x) ==
    IF s = <<>> THEN 0
    ELSE (IF Head(s) = x THEN 1 ELSE 0) + list_count(Tail(s), x)

\* tagged values of an untyped mapping
NoneVal == [t |-> "none"]
IntV(n) == [t |-> "int", v |-> n]
BoolV(b) == [t |-> "bool", v |-> b]
StrV(s) == [t |-> "str", v |-> s]
DictV(d) == [t |-> "dict", v |-> d]
ListV(l) == [t |-> "list", v |-> l]

\* Python truth value of a tagged value
Truthy(x) ==
    CASE x.t = "none" -> FALSE
      [] x.t = "bool" -> x.v
      [] x.t = "int"  -> x.v # 0
      [] OTHER        -> x.v # <<>>

\* a or b
PyOr(a, b) == IF Truthy(a) THEN a ELSE b

----------------------------------------------------------------------------
(* nodes/state_interpreter.py *)

K_element_count == <<"element", "_count">>
K_item_count == <<"item", "_count">>
K_result_count == <<"result", "_count">>
K_error_count == <<"error", "_count">>

extract_signals(observation) ==
    LET has(k) == W(k) \in DOMAIN observation
        get(k) == Get(observation, W(k), NoneVal)
        flag(k) == Truthy(Get(observation, W(k), BoolV(FALSE)))
        error ==
            IF has("error") \/ has("error_message")
            THEN (W("error_present") :> BoolV(TRUE))
                 @@ (W("error_details") :> PyOr(get("error"), get("error_message")))
            ELSE (W("error_present") :> BoolV(FALSE))
        busy == W("system_busy") :> BoolV(flag("loading") \/ flag("is_busy"))
        data == W("data_present") :> BoolV(~(flag("empty_state") \/ flag("no_data")))
        success ==
            IF has("success") \/ has("success_message")
            THEN (W("success_present") :> BoolV(TRUE))
                 @@ (W("success_details") :> PyOr(get("success"), get("success_message")))
            ELSE EmptyDict
        counted == {K_element_count, K_item_count, K_result_count, K_error_count}
                       \cap DOMAIN observation
        counts == [k \in counted |-> observation[k]]
        form == [k \in {W("form_visible"), W("inputs_filled")} \cap DOMAIN observation
                    |-> observation[k]]
    IN  error @@ busy @@ data @@ success @@ counts @@ form

\* added_keys and removed_keys are lists built from sets: their order is that
\* of the interpreter's set iteration, the same for equal sets within one
\* process, so they are kept as sets
compute_state_delta(previous, current) ==
    LET prev_keys == DOMAIN previous
        curr_keys == DOMAIN current
        added_keys == curr_keys \ prev_keys
        removed_keys == prev_keys \ curr_keys
        common_keys == prev_keys \cap curr_keys
        changed == {k \in common_keys : previous[k] # current[k]}
        changed_values ==
            [k \in changed |-> [previous |-> previous[k], current |-> current[k]]]
    IN  [added_keys |-> added_keys,
         removed_keys |-> removed_keys,
         changed_values |-> changed_values,
         unchanged |-> added_keys = {} /\ removed_keys = {} /\ changed = {}]

\* previous_state is None or {}: both are false in "if previous_state"
HasDict(o) == o # None /\ The(o) # EmptyDict

interpret_state ==
    LET observation == ui_state.observation
        state_delta ==
            IF HasDict(execution_context.previous_state)
            THEN Some(compute_state_delta(The(execution_context.previous_state),
                                          observation))
            ELSE None
        context ==
            [step_count |-> execution_context.step_count,
             actions_executed |-> Len(execution_context.action_history),
             anomalies_detected |-> Len(anomalies),
             page_url |-> ui_state.page_url,
             page_title |-> ui_state.page_title]
    IN  [available_actions |-> ui_state.available_actions,
         signals |-> extract_signals(observation),
         context |-> context,
         state_delta |-> state_delta]

\* a node that keeps a mark of its run in the observation
state_interpreter_node_stores ==
    /\ interpretation' = Some(interpret_state)
    /\ ui_state' = [ui_state EXCEPT
                        !.observation = (W("interpreted") :> BoolV(TRUE)) @@ @]
    /\ UNCHANGED <<execution_context, knowledge, decision, anomalies>>

\* the node: the interpretation is computed and dropped, the state returned
state_interpreter_node ==
    /\ interpretation' = Some(interpret_state)
    /\ UNCHANGED AgentState

----------------------------------------------------------------------------
(* schemas/anomaly_report.py: AnomalyReport as the nodes construct it *)

AnomalySeverity == {"LOW", "MEDIUM", "HIGH"}
AnomalyCategory == {"INVARIANT_VIOLATION", "REGRESSION", "INSTABILITY"}

AnomalyReport(severity, category, action_id, description, evidence) ==
    [severity |-> severity,
     category |-> category,
     action_id |-> action_id,
     description |-> description,
     evidence |-> evidence]

----------------------------------------------------------------------------
(* invariants/core_invariants.py *)

InvariantViolation(violated, evidence, description) ==
    [violated |-> violated, evidence |-> evidence, description |-> description]

NoViolation == InvariantViolation(FALSE, None, "")

\* str.lower(), token by token
LowerToken(t) ==
    CASE t = "Delete" -> "delete"
      [] t = "REMOVE" -> "remove"
      [] t = "Submit" -> "submit"
      [] t = "Selector" -> "selector"
      [] t = "CSS_Selector" -> "css_selector"
      [] t = "XPATH" -> "xpath"
      [] t = "DOM" -> "dom"
      [] OTHER -> t

lower(s) == [i \in DOMAIN s |-> LowerToken(s[i])]

\* keyword in s: the tokens of a string are cut so that no keyword straddles two
Contains(s, keyword) == \E i \in DOMAIN s : s[i] = keyword

\* the elements of a list, as set(list)
Elements(l) == {l[i] : i \in DOMAIN l}

\* a check that does not look at the reported success
check_cause_effect_invariant_ignores_success(action_id, previous_observation, current_observation, action_was_successful) ==
    IF previous_observation = current_observation
    THEN InvariantViolation(TRUE,
             Some([observed |-> "UI state unchanged after action execution",
                   action_id |-> action_id]),
             "Cause-Effect violation")
    ELSE NoViolation

check_cause_effect_invariant(action_id, previous_observation, current_observation, action_was_successful) ==
    IF ~action_was_successful THEN NoViolation
    ELSE IF previous_observation = current_observation
    THEN InvariantViolation(TRUE,
             Some([observed |-> "UI state unchanged after action execution",
                   action_id |-> action_id]),
             "Cause-Effect violation")
    ELSE NoViolation

\* a check that takes only success == true for a success
check_api_ui_consistency_success_only(api_response, ui_observation, expected_ui_fields) ==
    IF api_response = None THEN NoViolation
    ELSE
    LET response == The(api_response)
        api_success == Truthy(Get(response, W("success"), BoolV(FALSE)))
        missing_fields ==
            SelectSeq(expected_ui_fields, LAMBDA f : f \notin DOMAIN ui_observation)
    IN  IF api_success /\ missing_fields # <<>>
        THEN InvariantViolation(TRUE,
                 Some([expected |-> expected_ui_fields, missing |-> missing_fields]),
                 "API-UI Consistency violation")
        ELSE NoViolation

\* api_response and ui_observation are dicts, expected_ui_fields a list of keys
check_api_ui_consistency(api_response, ui_observation, expected_ui_fields) ==
    IF api_response = None THEN NoViolation
    ELSE
    LET response == The(api_response)
        api_success ==
            \/ Truthy(Get(response, W("success"), BoolV(FALSE)))
            \/ Get(response, W("status"), NoneVal) = StrV(W("ok"))
        missing_fields ==
            SelectSeq(expected_ui_fields, LAMBDA f : f \notin DOMAIN ui_observation)
    IN  IF ~api_success THEN NoViolation
        ELSE IF missing_fields # <<>>
        THEN InvariantViolation(TRUE,
                 Some([expected |-> expected_ui_fields, missing |-> missing_fields]),
                 "API-UI Consistency violation")
        ELSE NoViolation

\* a check that looks for the keywords in the identifier as it is written
check_entity_continuity_case_sensitive(previous_entities, current_entities, action_id) ==
    LET explicit_delete ==
            Contains(action_id, "delete") \/ Contains(action_id, "remove")
        disappeared_entities ==
            {e \in DOMAIN previous_entities :
                e \notin DOMAIN current_entities /\ ~explicit_delete}
    IN  IF disappeared_entities # {}
        THEN InvariantViolation(TRUE,
                 Some([disappeared |-> disappeared_entities, action_id |-> action_id]),
                 "Entity Continuity violation")
        ELSE NoViolation

\* disappeared_entities is a list in the order of previous_entities' keys; the
\* dicts here carry no order, so it is kept as the set of its elements
check_entity_continuity(previous_entities, current_entities, action_id) ==
    LET explicit_delete ==
            \/ Contains(lower(action_id), "delete")
            \/ Contains(lower(action_id), "remove")
        disappeared_entities ==
            {e \in DOMAIN previous_entities :
                e \notin DOMAIN current_entities /\ ~explicit_delete}
    IN  IF disappeared_entities # {}
        THEN InvariantViolation(TRUE,
                 Some([disappeared |-> disappeared_entities, action_id |-> action_id]),
                 "Entity Continuity violation")
        ELSE NoViolation

\* a check that does not count the executed actions
check_forward_progress_uncounted(action_history, observation_history, max_identical_observations) ==
    IF Len(observation_history) < max_identical_observations THEN NoViolation
    ELSE
    LET recent_observations == LastN(observation_history, max_identical_observations)
        first_obs == recent_observations[1]
        all_identical ==
            \A i \in DOMAIN recent_observations : recent_observations[i] = first_obs
    IN  IF all_identical
        THEN InvariantViolation(TRUE,
                 Some([identical_observation_count |-> max_identical_observations,
                       stalled_actions |->
                           LastN(action_history, max_identical_observations)]),
                 "Forward Progress violation")
        ELSE NoViolation

check_forward_progress(action_history, observation_history, max_identical_observations) ==
    IF Len(observation_history) < max_identical_observations THEN NoViolation
    ELSE
    LET recent_observations == LastN(observation_history, max_identical_observations)
        first_obs == recent_observations[1]
        all_identical ==
            \A i \in DOMAIN recent_observations : recent_observations[i] = first_obs
    IN  IF all_identical /\ Len(action_history) >= max_identical_observations
        THEN InvariantViolation(TRUE,
                 Some([identical_observation_count |-> max_identical_observations,
                       stalled_actions |->
                           LastN(action_history, max_identical_observations)]),
                 "Forward Progress violation")
        ELSE NoViolation

state_changing_keywords ==
    {"submit", "navigate", "create", "delete", "update", "login", "logout"}

\* a check that compares the two offered lists as lists
check_action_availability_consistency_ordered(previous_available_actions, current_available_actions, action_executed) ==
    LET is_state_changing ==
            \E keyword \in state_changing_keywords :
                Contains(lower(action_executed), keyword)
        actions_identical == previous_available_actions = current_available_actions
    IN  IF is_state_changing /\ actions_identical
        THEN InvariantViolation(TRUE,
                 Some([unchanged |-> current_available_actions,
                       action_executed |-> action_executed]),
                 "Action Availability violation")
        ELSE NoViolation

check_action_availability_consistency(previous_available_actions, current_available_actions, action_executed) ==
    LET is_state_changing ==
            \E keyword \in state_changing_keywords :
                Contains(lower(action_executed), keyword)
        actions_identical ==
            Elements(previous_available_actions) = Elements(current_available_actions)
    IN  IF is_state_changing /\ actions_identical
        THEN InvariantViolation(TRUE,
                 Some([unchanged |-> current_available_actions,
                       action_executed |-> action_executed]),
                 "Action Availability violation")
        ELSE NoViolation

----------------------------------------------------------------------------
(* invariants/baseline_checks.py *)

\* floats of the statistics are fixed point numbers, in 1/StatScale
StatScale == 10 * 10

Abs(x) == IF x < 0 THEN -x ELSE x

\* the largest r in lo..hi with r * r <= n
RECURSIVE SqrtBetween(_, _, _)
SqrtBetween(n, lo, hi) ==
    IF lo >= hi THEN lo
    ELSE LET mid == (lo + hi + 1) \div 2
         IN  IF mid * mid <= n THEN SqrtBetween(n, mid, hi)
             ELSE SqrtBetween(n, lo, mid - 1)

\* x ** 0.5 of a fixed point number of scale StatScale * StatScale (the search
\* stops at 46340, the largest integer whose square is below 2^31); the power
\* of a negative float is a complex number, never an exception: it is written
\* as minus the magnitude of its imaginary part
Sqrt(n) ==
    IF n = 0 THEN 0
    ELSE IF n < 0 THEN -SqrtBetween(-n, 0, IF -n < 46340 THEN -n ELSE 46340)
    ELSE SqrtBetween(n, 0, IF n < 46340 THEN n ELSE 46340)

\* a float keeps MantissaBits significant bits (53 in the program, fewer here,
\* the integers of the model being 32 bits wide)
MantissaBits == 28

RECURSIVE Pow2(_)
Pow2(n) == IF n = 0 THEN 1 ELSE 2 * Pow2(n - 1)

\* the distance between the floats next to a magnitude
RECURSIVE Ulp(_)
Ulp(magnitude) == IF magnitude < Pow2(MantissaBits) THEN 1 ELSE 2 * Ulp(magnitude \div 2)

\* the result of a float operation: the exact result rounded to the nearest
\* float, ties to the even mantissa
fl(x) ==
    LET ulp == Ulp(Abs(x))
        nearest == LET q == Abs(x) \div ulp
                       r == Abs(x) % ulp
                   IN  IF 2 * r < ulp THEN q
                       ELSE IF 2 * r > ulp THEN q + 1
                       ELSE IF q % 2 = 0 THEN q ELSE q + 1
    IN  IF x < 0 THEN -(nearest * ulp) ELSE nearest * ulp

BaselineMetrics(mean, std_dev, count) ==
    [mean |-> mean, std_dev |-> std_dev, count |-> count]

\* BaselineMetrics.update: Welford's online algorithm
update(self, new_value) ==
    LET new_count == self.count + 1
        delta == fl(new_value - self.mean)
        new_mean == fl(self.mean + fl(delta \div new_count))
        delta2 == fl(new_value - new_mean)
        new_variance ==
            fl(fl(fl(self.count * fl(self.std_dev * self.std_dev)) + fl(delta * delta2))
                   \div new_count)
        new_std_dev == Sqrt(new_variance)
    IN  BaselineMetrics(new_mean, new_std_dev, new_count)

to_dict(self) == [mean |-> self.mean, std_dev |-> self.std_dev, count |-> self.count]

from_dict(data) ==
    BaselineMetrics(
        IF "mean" \in DOMAIN data THEN data.mean ELSE 0,
        IF "std_dev" \in DOMAIN data THEN data.std_dev ELSE 0,
        IF "count" \in DOMAIN data THEN data.count ELSE 0)

\* less than this many observations: the statistic is provisional
MinSamples == 3

\* 1% tolerance around a baseline of zero deviation: 0.01 = 1 / TolerancePerCent
TolerancePerCent == 100

\* a check that reports a value exactly sigma_threshold deviations away
check_stability_against_baseline_inclusive(metric_name, current_value, baseline, threshold) ==
    IF baseline = None
    THEN <<NoViolation, BaselineMetrics(current_value, 0, 1)>>
    ELSE
    LET baseline_metrics == from_dict(The(baseline))
        mean == baseline_metrics.mean
        std_dev == baseline_metrics.std_dev
        updated_baseline == update(baseline_metrics, current_value)
        deviates ==
            IF std_dev = 0
            THEN TolerancePerCent * Abs(current_value - mean) > Abs(mean)
            ELSE Abs(current_value - mean) >= threshold * std_dev
    IN  IF baseline_metrics.count >= MinSamples /\ deviates
        THEN <<InvariantViolation(TRUE,
                   Some([metric |-> metric_name, baseline_mean |-> mean,
                         current_value |-> current_value]),
                   "Stability violation: exceeded threshold"),
               updated_baseline>>
        ELSE <<NoViolation, updated_baseline>>

\* a check that keeps the stored baseline when it reports a violation
check_stability_against_baseline_frozen(metric_name, current_value, baseline, threshold) ==
    IF baseline = None
    THEN <<NoViolation, BaselineMetrics(current_value, 0, 1)>>
    ELSE
    LET baseline_metrics == from_dict(The(baseline))
        mean == baseline_metrics.mean
        std_dev == baseline_metrics.std_dev
        updated_baseline == update(baseline_metrics, current_value)
        deviates ==
            IF std_dev = 0
            THEN TolerancePerCent * Abs(current_value - mean) > Abs(mean)
            ELSE Abs(current_value - mean) > threshold * std_dev
    IN  IF baseline_metrics.count >= MinSamples /\ deviates
        THEN <<InvariantViolation(TRUE,
                   Some([metric |-> metric_name, baseline_mean |-> mean,
                         current_value |-> current_value]),
                   "Stability violation: exceeded threshold"),
               baseline_metrics>>
        ELSE <<NoViolation, updated_baseline>>

\* returns (InvariantViolation, updated BaselineMetrics); baseline is None or
\* Some(dict); z > sigma_threshold is |x - mean| > sigma_threshold * std_dev
check_stability_against_baseline(metric_name, current_value, baseline, sigma_threshold) ==
    IF baseline = None
    THEN <<NoViolation, BaselineMetrics(current_value, 0, 1)>>
    ELSE
    LET baseline_metrics == from_dict(The(baseline))
        mean == baseline_metrics.mean
        std_dev == baseline_metrics.std_dev
        updated_baseline == update(baseline_metrics, current_value)
    IN  IF baseline_metrics.count < MinSamples
        THEN <<NoViolation, updated_baseline>>
        ELSE IF std_dev = 0
        THEN IF TolerancePerCent * Abs(current_value - mean) > Abs(mean)
             THEN <<InvariantViolation(TRUE,
                        Some([metric |-> metric_name, baseline_mean |-> mean,
                              current_value |-> current_value]),
                        "Stability violation: deviated from perfect baseline"),
                    updated_baseline>>
             ELSE <<NoViolation, updated_baseline>>
        ELSE IF Abs(current_value - mean) > sigma_threshold * std_dev
        THEN <<InvariantViolation(TRUE,
                   Some([metric |-> metric_name, baseline_mean |-> mean,
                         baseline_std_dev |-> std_dev,
                         current_value |-> current_value]),
                   "Stability violation: exceeded threshold"),
               updated_baseline>>
        ELSE <<NoViolation, updated_baseline>>

\* float(x): defined on numbers (and bool), raises on anything else
IsNumber(x) == x.t \in {"int", "bool"}
Float(x) == IF x.t = "bool" THEN (IF x.v THEN StatScale ELSE 0) ELSE x.v * StatScale

K_response_time_ms == W("response_time_ms")
Suffix_count == "_count"
Suffix_duration_ms == W("_duration_ms")

endswith(s, suffix) == s # <<>> /\ s[Len(s)] = suffix

\* a set as a list, in one fixed order
RECURSIVE SeqOf(_)
SeqOf(set) ==
    IF set = {} THEN <<>>
    ELSE LET x == CHOOSE y \in set : TRUE
         IN  <<x>> \o SeqOf(set \ {x})

\* the names of the metrics in the order the dict receives them: the three
\* recognised keys, the action's duration, then every other numeric *_count key
\* (the observation's own key order is not modelled: one fixed order stands
\* for it)
metric_names(observation, action_id) ==
    LET recognised ==
            SelectSeq(<<K_response_time_ms, K_element_count, K_error_count>>,
                      LAMBDA k : k \in DOMAIN observation)
        duration ==
            IF action_id # None /\ The(action_id) # <<>>
               /\ (The(action_id) \o Suffix_duration_ms) \in DOMAIN observation
            THEN <<The(action_id) \o Suffix_duration_ms>>
            ELSE <<>>
        first == recognised \o duration
        custom ==
            {k \in DOMAIN observation :
                /\ IsNumber(observation[k])
                /\ endswith(k, Suffix_count)
                /\ k \notin Elements(first)}
    IN  first \o SeqOf(custom)

\* [raised |-> a float() conversion failed, metrics |-> name -> value]
extract_metrics_from_observation(observation, action_id) ==
    LET names == metric_names(observation, action_id)
    IN  [raised |-> \E i \in DOMAIN names : ~IsNumber(observation[names[i]]),
         names |-> names,
         metrics |-> [k \in Elements(names) |->
                        IF IsNumber(observation[k]) THEN Float(observation[k]) ELSE 0]]

----------------------------------------------------------------------------
(* nodes/anomaly_detector.py *)

\* "if x" of an Optional[str]: neither None nor ""
HasStr(o) == o # None /\ The(o) # <<>>

previous_observation ==
    IF HasDict(execution_context.previous_state)
    THEN The(execution_context.previous_state)
    ELSE EmptyDict

\* action_history[-1] if action_history else None
last_action ==
    IF execution_context.action_history # <<>>
    THEN Some(execution_context.action_history[Len(execution_context.action_history)])
    ELSE None

\* one report when the check is violated, none otherwise
Reported(check, severity, category) ==
    IF check.violated
    THEN <<AnomalyReport(severity, category, last_action,
                         check.description, check.evidence)>>
    ELSE <<>>

sigma_threshold == 2

stability(metric_name, metrics) ==
    check_stability_against_baseline(
        metric_name, metrics[metric_name],
        IF metric_name \in DOMAIN knowledge.baselines
        THEN Some(knowledge.baselines[metric_name]) ELSE None,
        sigma_threshold)

RECURSIVE stability_reports(_, _)
stability_reports(names, metrics) ==
    IF names = <<>> THEN <<>>
    ELSE Reported(stability(Head(names), metrics)[1], "MEDIUM", "REGRESSION")
         \o stability_reports(Tail(names), metrics)

\* float() of a recognised metric that is no number raises in step 6, before
\* any baseline is written and before the reports reach the state
\* previous_entities.keys() of a truthy value that is no mapping
entities_raise ==
    LET previous_entities == Get(previous_observation, W("entities"), DictV(EmptyDict))
    IN  /\ Truthy(previous_entities)
        /\ HasStr(last_action)
        /\ previous_entities.t # "dict"

\* detect_anomalies raises instead of returning
detect_raises ==
    \/ entities_raise
    \/ extract_metrics_from_observation(ui_state.observation, last_action).raised

\* the list detect_anomalies returns
detect_anomalies ==
    LET current_observation == ui_state.observation
        action_history == execution_context.action_history
        cause_effect ==
            IF HasStr(last_action) /\ previous_observation # EmptyDict
            THEN check_cause_effect_invariant(The(last_action), previous_observation,
                                              current_observation, TRUE)
            ELSE NoViolation
        api_response == Get(current_observation, W("_api_response"), NoneVal)
        api_ui_check ==
            IF Truthy(api_response)
            THEN check_api_ui_consistency(
                     Some(api_response.v), current_observation,
                     Get(current_observation, W("_expected_ui_fields"), ListV(<<>>)).v)
            ELSE NoViolation
        previous_entities == Get(previous_observation, W("entities"), DictV(EmptyDict))
        current_entities == Get(current_observation, W("entities"), DictV(EmptyDict))
        entity_check ==
            IF Truthy(previous_entities) /\ HasStr(last_action)
            THEN check_entity_continuity(previous_entities.v, current_entities.v,
                                         The(last_action))
            ELSE NoViolation
        progress_check ==
            IF execution_context.step_count >= 3
            THEN check_forward_progress(action_history,
                     <<previous_observation, current_observation>>, 3)
            ELSE NoViolation
        availability_check ==
            IF previous_observation # EmptyDict /\ HasStr(last_action)
            THEN check_action_availability_consistency(
                     Get(previous_observation, W("_available_actions"), ListV(<<>>)).v,
                     ui_state.available_actions, The(last_action))
            ELSE NoViolation
        extracted == extract_metrics_from_observation(current_observation, last_action)
    IN  Reported(cause_effect, "MEDIUM", "INVARIANT_VIOLATION")
        \o Reported(api_ui_check, "HIGH", "INVARIANT_VIOLATION")
        \o Reported(entity_check, "HIGH", "INVARIANT_VIOLATION")
        \o Reported(progress_check, "HIGH", "INSTABILITY")
        \o Reported(availability_check, "MEDIUM", "INVARIANT_VIOLATION")
        \o stability_reports(extracted.names, extracted.metrics)

\* knowledge.baselines after the loop of step 6: every extracted metric's
\* baseline is replaced by the updated one
detected_baselines ==
    LET extracted == extract_metrics_from_observation(ui_state.observation, last_action)
        names == Elements(extracted.names)
    IN  [k \in DOMAIN knowledge.baselines \cup names |->
            IF k \in names
            THEN to_dict(stability(k, extracted.metrics)[2])
            ELSE knowledge.baselines[k]]

\* a node that assigns the new reports instead of extending the log
anomaly_detector_node_assigns ==
    /\ anomalies' = detect_anomalies
    /\ knowledge' = [knowledge EXCEPT !.baselines = detected_baselines]
    /\ UNCHANGED <<ui_state, execution_context, decision, interpretation>>

anomaly_detector_node ==
    /\ anomalies' = anomalies \o detect_anomalies
    /\ knowledge' = [knowledge EXCEPT !.baselines = detected_baselines]
    /\ UNCHANGED <<ui_state, execution_context, decision, interpretation>>

----------------------------------------------------------------------------
(* nodes/router.py *)

\* risk scores are fixed point numbers, in 1/RiskScale
RiskScale == 100 * 100

\* risk_scores.get(action_id, 0.5)
DefaultRisk == 5000

\* a reasoning string: its fixed text, the numbers and the action formatted
\* into it
Reasoning(prefix, text, numbers, action) ==
    [prefix |-> prefix, text |-> text, numbers |-> numbers, action |-> action]

IsHigh(a) == a.severity = "HIGH"

high_count(log) == Len(SelectSeq(log, IsHigh))

\* high_severity_ratio > 0.5
ExcessiveRate(log) == 2 * high_count(log) > Len(log)

\* the termination conditions, each with the reason it returns

rule_no_actions_dropped ==
    [fires |-> FALSE,
     reason |-> Reasoning("TERMINATE", "No available actions remaining", <<>>, None)]

rule_no_actions ==
    [fires |-> ui_state.available_actions = <<>>,
     reason |-> Reasoning("TERMINATE", "No available actions remaining", <<>>, None)]

rule_max_steps_exceeded ==
    [fires |-> execution_context.step_count > execution_context.max_steps,
     reason |-> Reasoning("TERMINATE", "Maximum steps reached",
                          <<execution_context.max_steps>>, None)]

rule_max_steps ==
    [fires |-> execution_context.step_count >= execution_context.max_steps,
     reason |-> Reasoning("TERMINATE", "Maximum steps reached",
                          <<execution_context.max_steps>>, None)]

\* a rule that needs more than three HIGH reports among the last five
rule_repeated_high_strict ==
    LET recent_anomalies == LastN(anomalies, 5)
        high_severity_count == high_count(recent_anomalies)
    IN  [fires |-> high_severity_count > 3,
         reason |-> Reasoning("TERMINATE", "Repeated high-severity anomalies",
                              <<high_severity_count>>, None)]

rule_repeated_high ==
    LET recent_anomalies == LastN(anomalies, 5)
        high_severity_count == high_count(recent_anomalies)
    IN  [fires |-> high_severity_count >= 3,
         reason |-> Reasoning("TERMINATE", "Repeated high-severity anomalies",
                              <<high_severity_count>>, None)]

rule_three_consecutive ==
    LET last_3_anomalies == IF Len(anomalies) >= 3 THEN LastN(anomalies, 3) ELSE <<>>
    IN  [fires |-> /\ Len(last_3_anomalies) = 3
                   /\ \A i \in DOMAIN last_3_anomalies : IsHigh(last_3_anomalies[i]),
         reason |-> Reasoning("TERMINATE",
                              "Three consecutive high-severity anomalies detected",
                              <<>>, None)]

rule_excessive_rate ==
    [fires |-> Len(anomalies) > 20 /\ ExcessiveRate(anomalies),
     reason |-> Reasoning("TERMINATE", "Excessive anomaly rate (>50% high severity)",
                          <<>>, None)]

\* the order in which should_terminate tries them

termination_rules_steps_first ==
    <<rule_max_steps, rule_no_actions, rule_repeated_high, rule_three_consecutive,
      rule_excessive_rate>>

termination_rules ==
    <<rule_no_actions, rule_max_steps, rule_repeated_high, rule_three_consecutive,
      rule_excessive_rate>>

\* (should_terminate, reason): the first rule that fires returns
should_terminate ==
    LET firing == {i \in DOMAIN termination_rules : termination_rules[i].fires}
        first == CHOOSE i \in firing : \A j \in firing : i <= j
    IN  IF firing # {}
        THEN <<TRUE, termination_rules[first].reason>>
        ELSE <<FALSE, Reasoning("", "", <<>>, None)>>

\* the risk above which the last action triggers a deep test: 0.75
DeepTestRisk == 7500

HighRisk_inclusive(risk_score) == risk_score >= DeepTestRisk

HighRisk(risk_score) == risk_score > DeepTestRisk

\* (should_deep_test, reason)
\* a check that looks at the risk of the last action only
should_deep_test_risk_only ==
    LET action_history == execution_context.action_history
        risk_score ==
            Get(knowledge.risk_scores, action_history[Len(action_history)], DefaultRisk)
    IN  IF action_history # <<>> /\ HighRisk(risk_score)
        THEN <<TRUE, Reasoning("DEEP_TEST", "High risk action detected",
                               <<risk_score>>, None)>>
        ELSE <<FALSE, Reasoning("", "", <<>>, None)>>

should_deep_test ==
    LET recent_anomalies == LastN(anomalies, 3)
        has_medium_severity ==
            \E i \in DOMAIN recent_anomalies : recent_anomalies[i].severity = "MEDIUM"
        has_regression ==
            \E i \in DOMAIN recent_anomalies : recent_anomalies[i].category = "REGRESSION"
        action_history == execution_context.action_history
        risk_score ==
            Get(knowledge.risk_scores, action_history[Len(action_history)], DefaultRisk)
    IN  IF has_medium_severity
        THEN <<TRUE, Reasoning("DEEP_TEST", "Medium severity anomaly detected", <<>>, None)>>
        ELSE IF has_regression
        THEN <<TRUE, Reasoning("DEEP_TEST", "Baseline deviation detected", <<>>, None)>>
        ELSE IF action_history # <<>> /\ HighRisk(risk_score)
        THEN <<TRUE, Reasoning("DEEP_TEST", "High risk action detected",
                               <<risk_score>>, None)>>
        ELSE <<FALSE, Reasoning("", "", <<>>, None)>>

\* (the ControlDecision returned, the reasoning written to the state)
make_routing_decision ==
    IF should_terminate[1] THEN <<"TERMINATE", should_terminate[2]>>
    ELSE IF should_deep_test[1] THEN <<"DEEP_TEST", should_deep_test[2]>>
    ELSE <<"CONTINUE",
           Reasoning("CONTINUE", "No anomalies or termination conditions detected",
                     <<>>, None)>>

router_node ==
    /\ decision' = [decision EXCEPT !.control = make_routing_decision[1],
                                    !.reasoning = Some(make_routing_decision[2])]
    /\ UNCHANGED <<ui_state, execution_context, knowledge, anomalies, interpretation>>

----------------------------------------------------------------------------
(* policies/risk.py *)

Min(a, b) == IF a < b THEN a ELSE b
Max(a, b) == IF a > b THEN a ELSE b

\* learning_rate = 0.2, in per cent
LearningRatePerCent == 20

\* severity_weights.get(anomaly_severity, 0.5), in per cent
severity_weights(anomaly_severity) ==
    CASE anomaly_severity = "LOW" -> 20
      [] anomaly_severity = "MEDIUM" -> 50
      [] anomaly_severity = "HIGH" -> 90
      [] OTHER -> 50

\* a float result is the representable number nearest to the exact one, the
\* even one of two equally near: n / d in units of 1/RiskScale
RoundDiv(n, d) ==
    LET q == n \div d
        r == n % d
    IN  IF 2 * r < d THEN q
        ELSE IF 2 * r > d THEN q + 1
        ELSE IF q % 2 = 0 THEN q ELSE q + 1

\* an update that adds the whole severity impact, whatever the distance of
\* the score from 1.0
update_risk_score_additive(action_id, current_risk, triggered_anomaly, anomaly_severity) ==
    LET new_risk ==
            IF ~triggered_anomaly
            THEN RoundDiv(current_risk * (200 - LearningRatePerCent), 200)
            ELSE current_risk
                 + RoundDiv(RiskScale * LearningRatePerCent
                                * severity_weights(anomaly_severity), 100 * 100)
    IN  new_risk

update_risk_score(action_id, current_risk, triggered_anomaly, anomaly_severity) ==
    LET new_risk ==
            IF ~triggered_anomaly
            THEN RoundDiv(current_risk * (200 - LearningRatePerCent), 200)
            ELSE current_risk
                 + RoundDiv((RiskScale - current_risk) * LearningRatePerCent
                                * severity_weights(anomaly_severity), 100 * 100)
    IN  Max(0, Min(RiskScale, new_risk))

\* the loop over recent_anomalies, oldest first
RECURSIVE risks_after(_, _)
risks_after(updated_risks, recent_anomalies) ==
    IF recent_anomalies = <<>> THEN updated_risks
    ELSE
    LET anomaly == Head(recent_anomalies)
        id == The(anomaly.action_id)
        new_risk == update_risk_score(id, Get(updated_risks, id, DefaultRisk),
                                      TRUE, anomaly.severity)
    IN  IF HasStr(anomaly.action_id)
        THEN risks_after((id :> new_risk) @@ updated_risks, Tail(recent_anomalies))
        ELSE risks_after(updated_risks, Tail(recent_anomalies))

\* an update that also lowers the score of every action no recent anomaly
\* is attributed to
update_risks_from_anomalies_decaying(current_risks, log, recent_anomalies_only) ==
    LET recent_anomalies == LastN(log, recent_anomalies_only)
        raised == risks_after(current_risks, recent_anomalies)
        attributed ==
            {The(recent_anomalies[i].action_id) :
                i \in {j \in DOMAIN recent_anomalies : HasStr(recent_anomalies[j].action_id)}}
    IN  [a \in DOMAIN raised |->
            IF a \in attributed THEN raised[a]
            ELSE update_risk_score(a, raised[a], FALSE, "MEDIUM")]

update_risks_from_anomalies(current_risks, log, recent_anomalies_only) ==
    risks_after(current_risks, LastN(log, recent_anomalies_only))

----------------------------------------------------------------------------
(* policies/exploration.py *)

\* the coverage score is 1 / (execution_count + 1) in each of the three
\* branches (1.0, 0.5, 1.0 / (execution_count + 1)): its denominator
coverage_denominator(action_id, action_history) ==
    list_count(action_history, action_id) + 1

\* combined_score = coverage * 0.7 + (1 - risk) * 0.3, as the fraction
\* num / den of 10 * RiskScale, compared exactly
combined_score(action_id, action_history, risk_scores) ==
    LET den == coverage_denominator(action_id, action_history)
        risk_score == Get(risk_scores, action_id, DefaultRisk)
    IN  [num |-> 7 * RiskScale + 3 * (RiskScale - risk_score) * den, den |-> den]

ScoreLess(a, b) == a.num * b.den < b.num * a.den

\* a maximum that keeps the last of the keys with the best score
LastBest(candidates, action_history, risk_scores) ==
    LET score(i) == combined_score(candidates[i], action_history, risk_scores)
        best == CHOOSE i \in DOMAIN candidates :
                    /\ \A j \in DOMAIN candidates : ~ScoreLess(score(i), score(j))
                    /\ \A j \in (i + 1)..Len(candidates) : ScoreLess(score(j), score(i))
    IN  candidates[best]

\* max(action_scores.items(), key = score): the first key of the dict, in
\* insertion order, that no other key's score exceeds
FirstBest(candidates, action_history, risk_scores) ==
    LET score(i) == combined_score(candidates[i], action_history, risk_scores)
        best == CHOOSE i \in DOMAIN candidates :
                    /\ \A j \in DOMAIN candidates : ~ScoreLess(score(i), score(j))
                    /\ \A j \in 1..(i - 1) : ScoreLess(score(j), score(i))
    IN  candidates[best]

\* the threshold of the retry: 1.0
RelaxedRisk == 10000

\* [diverges |-> the retry calls itself with its own arguments, without end,
\*  selected |-> None or Some(action_id)]
select_action_by_coverage(available_actions, action_history, risk_scores, max_risk_threshold) ==
    LET allowed(threshold) ==
            SelectSeq(available_actions,
                      LAMBDA a : Get(risk_scores, a, DefaultRisk) <= threshold)
    IN  IF available_actions = <<>>
        THEN [diverges |-> FALSE, selected |-> None]
        ELSE IF allowed(max_risk_threshold) # <<>>
        THEN [diverges |-> FALSE,
              selected |-> Some(FirstBest(allowed(max_risk_threshold),
                                          action_history, risk_scores))]
        ELSE IF allowed(RelaxedRisk) # <<>>
        THEN [diverges |-> FALSE,
              selected |-> Some(FirstBest(allowed(RelaxedRisk),
                                          action_history, risk_scores))]
        ELSE [diverges |-> TRUE, selected |-> None]

----------------------------------------------------------------------------
(* schemas/action_contract.py *)

forbidden_keys == {W("selector"), W("css_selector"), W("xpath"), W("dom")}

\* [raised |-> ValueError, value |-> the validated field]
validate_action_id(v) ==
    [raised |-> v = <<>> \/ strip(v) = <<>>, value |-> strip(v)]

\* a validation that compares the keys as they are written
validate_parameters_case_sensitive(v) ==
    [raised |-> \E key \in DOMAIN v : key \in forbidden_keys, value |-> v]

validate_parameters(v) ==
    [raised |-> \E key \in DOMAIN v : lower(key) \in forbidden_keys, value |-> v]

\* [raised |-> construction is rejected, value |-> the contract]
ActionContract(action_id, parameters) ==
    [raised |-> validate_action_id(action_id).raised
                \/ validate_parameters(parameters).raised,
     value |-> [action_id |-> validate_action_id(action_id).value,
                parameters |-> validate_parameters(parameters).value]]

----------------------------------------------------------------------------
(* nodes/action_planner.py *)

\* max_risk_threshold = 0.9
MaxRiskThreshold == 9000

\* recent_anomalies_only = 10
RecentAnomaliesOnly == 10

updated_risks ==
    update_risks_from_anomalies(knowledge.risk_scores, anomalies, RecentAnomaliesOnly)

selection ==
    select_action_by_coverage(ui_state.available_actions,
                              execution_context.action_history,
                              updated_risks, MaxRiskThreshold)

\* the planner writes the risk scores back only past the early return
planned_risks ==
    IF ui_state.available_actions = <<>> THEN knowledge.risk_scores ELSE updated_risks

\* the selection recurses without end, or the ActionContract is rejected
plan_raises ==
    /\ ui_state.available_actions # <<>>
    /\ \/ selection.diverges
       \/ /\ HasStr(selection.selected)
          /\ ActionContract(The(selection.selected), EmptyDict).raised

\* a planner that, under DEEP_TEST, admits only actions below the deep-test
\* risk
plan_next_action_cautious ==
    LET cautious ==
            select_action_by_coverage(
                ui_state.available_actions, execution_context.action_history,
                updated_risks,
                IF decision.control = "DEEP_TEST" THEN DeepTestRisk ELSE MaxRiskThreshold)
    IN  IF ui_state.available_actions = <<>> THEN None
        ELSE IF ~HasStr(cautious.selected) THEN None
        ELSE Some(ActionContract(The(cautious.selected), EmptyDict).value)

\* None, or Some(ActionContract)
plan_next_action ==
    IF ui_state.available_actions = <<>> THEN None
    ELSE IF ~HasStr(selection.selected) THEN None
    ELSE Some(ActionContract(The(selection.selected), EmptyDict).value)

planner_reasoning(next_action) ==
    IF next_action # None
    THEN Reasoning("", "Selecting action from available actions. Risk score",
                   <<Len(ui_state.available_actions),
                     Get(planned_risks, The(next_action).action_id, DefaultRisk)>>,
                   Some(The(next_action).action_id))
    ELSE Reasoning("", "No valid actions available", <<>>, None)

action_planner_node ==
    /\ knowledge' = [knowledge EXCEPT !.risk_scores = planned_risks]
    /\ decision' = [decision EXCEPT !.next_action = plan_next_action,
                                    !.reasoning = Some(planner_reasoning(plan_next_action))]
    /\ UNCHANGED <<ui_state, execution_context, anomalies, interpretation>>

\* the state an exception of the planner leaves behind: the risk scores are
\* written before the selection
action_planner_raised ==
    /\ knowledge' = [knowledge EXCEPT !.risk_scores = planned_risks]
    /\ UNCHANGED <<ui_state, execution_context, decision, anomalies, interpretation>>

----------------------------------------------------------------------------
(* nodes/learner.py *)

\* "_success_count" ends with "_count"
Suffix_success_count == <<"_success", "_count">>
Suffix_success_rate == W("_success_rate")
Prefix_page_visits == W("page_visits_")

\* 1.0 of the statistics
One == StatScale

\* baselines.get(key, {}).get("mean", 0)
stored_mean(baselines, key) ==
    IF key \in DOMAIN baselines /\ "mean" \in DOMAIN baselines[key]
    THEN baselines[key].mean
    ELSE 0

\* knowledge.baselines after learn_from_observation
learn_from_observation(baselines) ==
    LET action_success_key == The(last_action) \o Suffix_success_count
        with_action ==
            IF HasStr(last_action)
            THEN (action_success_key :>
                    [mean |-> stored_mean(baselines, action_success_key) + One,
                     std_dev |-> 0, count |-> 1]) @@ baselines
            ELSE baselines
        page_visit_key == Prefix_page_visits \o The(ui_state.page_url)
    IN  IF HasStr(ui_state.page_url)
        THEN (page_visit_key :>
                [mean |-> stored_mean(with_action, page_visit_key) + One,
                 std_dev |-> 0, count |-> 1]) @@ with_action
        ELSE with_action

\* the sample folded into "<last_action>_success_rate"
success_sample ==
    LET recent_anomalies == LastN(anomalies, 3)
        high_severity_triggered ==
            \E i \in DOMAIN recent_anomalies :
                /\ recent_anomalies[i].action_id = last_action
                /\ recent_anomalies[i].severity = "HIGH"
    IN  IF high_severity_triggered THEN 0 ELSE One

\* knowledge.baselines after update_action_success_rates
update_action_success_rates(baselines) ==
    IF execution_context.action_history = <<>> THEN baselines
    ELSE
    LET success_rate_key == The(last_action) \o Suffix_success_rate
    IN  IF success_rate_key \notin DOMAIN baselines
        THEN (success_rate_key :>
                [mean |-> success_sample, std_dev |-> 0, count |-> 1]) @@ baselines
        ELSE (success_rate_key :>
                to_dict(update(from_dict(baselines[success_rate_key]), success_sample)))
             @@ baselines

\* a learner that counts the step itself
learner_node_counts_step ==
    /\ knowledge' =
           [knowledge EXCEPT !.baselines =
               update_action_success_rates(learn_from_observation(knowledge.baselines))]
    /\ execution_context' = [execution_context EXCEPT !.step_count = @ + 1]
    /\ UNCHANGED <<ui_state, decision, anomalies, interpretation>>

learner_node ==
    /\ knowledge' =
           [knowledge EXCEPT !.baselines =
               update_action_success_rates(learn_from_observation(knowledge.baselines))]
    /\ UNCHANGED <<ui_state, execution_context, decision, anomalies, interpretation>>

----------------------------------------------------------------------------
(* The external driver: the fields the core only reads *)

\* reasoning cycles run on one AgentState
MaxCycles == 3

\* execution_context.max_steps of the session
MaxSteps == 2

click_submit == <<"click_", "submit">>
fill_input == <<"fill_input">>
delete_post == <<"delete", "_post">>
padded_save == <<" ", "save", " ">>

OfferedSets ==
    {<<>>,
     <<click_submit, fill_input>>,
     <<fill_input, delete_post>>,
     <<padded_save>>}

entities_u1_p2 == DictV((W("u1") :> DictV(EmptyDict)) @@ (W("p2") :> DictV(EmptyDict)))
entities_u1 == DictV(W("u1") :> DictV(EmptyDict))

Observations ==
    {(W("a") :> IntV(1)) @@ (W("entities") :> entities_u1_p2),
     (W("a") :> IntV(1)) @@ (W("entities") :> entities_u1),
     (W("a") :> IntV(2))
        @@ (W("_api_response") :> DictV(W("success") :> BoolV(TRUE)))
        @@ (W("_expected_ui_fields") :> ListV(<<W("a"), W("b")>>)),
     (K_element_count :> IntV(5)),
     (K_element_count :> IntV(9))}

page_test == W("https://example.com/test")

\* what the driver may offer in one cycle
UIStates ==
    {[available_actions |-> offered, observation |-> observation,
      page_url |-> Some(page_test), page_title |-> Some(W("Test Page"))] :
        offered \in OfferedSets, observation \in Observations}

\* the knowledge and the anomaly log a session starts from: a new AgentState,
\* or one carried over from an earlier session (tests/fixtures.py)
SeedAnomaly(action_id) ==
    AnomalyReport("HIGH", "INVARIANT_VIOLATION", Some(W(action_id)),
                  "Critical violation", None)

Seeds ==
    {[knowledge |-> [baselines |-> EmptyDict, risk_scores |-> EmptyDict],
      anomalies |-> <<>>],
     [knowledge |->
         [baselines |-> (K_element_count :>
                            [mean |-> 5 * StatScale, std_dev |-> StatScale, count |-> 10]),
          risk_scores |-> (click_submit :> 2000) @@ (fill_input :> 1000)],
      anomalies |-> <<>>],
     [knowledge |-> [baselines |-> EmptyDict, risk_scores |-> EmptyDict],
      anomalies |-> <<SeedAnomaly("action_1"), SeedAnomaly("action_2")>>]}

Init ==
    /\ ui_state \in UIStates
    /\ execution_context =
           [step_count |-> 0, max_steps |-> MaxSteps,
            action_history |-> <<>>, previous_state |-> None]
    /\ \E seed \in Seeds :
           /\ knowledge = seed.knowledge
           /\ anomalies = seed.anomalies
    /\ decision = [next_action |-> None, control |-> "CONTINUE", reasoning |-> None]
    /\ pc = "interpret"
    /\ interpretation = None
    /\ cycles = 1
    /\ args = None
    /\ returned = None
    /\ observed = <<ui_state.observation>>

\* the driver executes the decided action and observes the application again
Advance ==
    /\ pc = "end"
    /\ cycles < MaxCycles
    /\ decision.control # "TERMINATE"
    /\ decision.next_action # None
    /\ ui_state' \in UIStates
    /\ execution_context' =
           [execution_context EXCEPT
               !.step_count = @ + 1,
               !.action_history = Append(@, The(decision.next_action).action_id),
               !.previous_state = Some(ui_state.observation)]
    /\ pc' = "interpret"
    /\ cycles' = cycles + 1
    /\ observed' = Append(observed, ui_state'.observation)
    /\ UNCHANGED <<knowledge, decision, anomalies, interpretation, args, returned>>

\* no action was handed out, or the cycle decided TERMINATE: nothing is
\* executed; the caller may still observe again and invoke one more cycle
Reobserve ==
    /\ pc = "end"
    /\ cycles < MaxCycles
    /\ decision.control = "TERMINATE" \/ decision.next_action = None
    /\ ui_state' \in UIStates
    /\ pc' = "interpret"
    /\ cycles' = cycles + 1
    /\ observed' = Append(observed, ui_state'.observation)
    /\ UNCHANGED <<execution_context, knowledge, decision, anomalies,
                   interpretation, args, returned>>

----------------------------------------------------------------------------
(* graph.py: one invocation of the compiled graph *)

\* a conditional edge that never leaves the cycle at the router
determine_next_step_always_plans(control) == "plan_action"

determine_next_step(control) ==
    IF control = "TERMINATE" THEN "terminate" ELSE "plan_action"

Interpret ==
    /\ pc = "interpret"
    /\ state_interpreter_node
    /\ pc' = "detect_anomalies"
    /\ UNCHANGED <<cycles, args, returned, observed>>

DetectAnomalies ==
    /\ pc = "detect_anomalies"
    /\ IF detect_raises
       THEN pc' = "raised" /\ UNCHANGED <<AgentState, interpretation>>
       ELSE anomaly_detector_node /\ pc' = "route"
    /\ UNCHANGED <<cycles, args, returned, observed>>

Route ==
    /\ pc = "route"
    /\ router_node
    /\ pc' = IF determine_next_step(decision'.control) = "terminate"
             THEN "end" ELSE "plan_action"
    /\ UNCHANGED <<cycles, args, returned, observed>>

PlanAction ==
    /\ pc = "plan_action"
    /\ IF plan_raises
       THEN action_planner_raised /\ pc' = "raised"
       ELSE action_planner_node /\ pc' = "learn"
    /\ UNCHANGED <<cycles, args, returned, observed>>

Learn ==
    /\ pc = "learn"
    /\ learner_node
    /\ pc' = "end"
    /\ UNCHANGED <<cycles, args, returned, observed>>

Next ==
    \/ Interpret
    \/ DetectAnomalies
    \/ Route
    \/ PlanAction
    \/ Learn
    \/ Advance
    \/ Reobserve

Spec == Init /\ [][Next]_vars

----------------------------------------------------------------------------
(* The router on its own: make_routing_decision applied once to an          *)
(* AgentState drawn from bounded sets                                       *)

\* the length of the most recent part of a drawn log, of any content
MaxTail == 3

\* n copies of x
Repeat(x, n) == [i \in 1..n |-> x]

LogEntry(severity, category) ==
    AnomalyReport(severity, category, Some(fill_input), "drawn", None)

TailEntries ==
    {LogEntry("HIGH", "INVARIANT_VIOLATION"),
     LogEntry("MEDIUM", "INVARIANT_VIOLATION"),
     LogEntry("LOW", "REGRESSION"),
     LogEntry("LOW", "INSTABILITY")}

Tails == UNION {[1..n -> TailEntries] : n \in 0..MaxTail}

\* older entries: a block of HIGH reports, then a block of LOW ones, around
\* the sizes at which "more than 20, more than half of them HIGH" turns
BlockSizes == {0, 10, 11}

DrawnLogs ==
    {Repeat(LogEntry("HIGH", "INSTABILITY"), h)
        \o Repeat(LogEntry("LOW", "INSTABILITY"), l) \o tail :
            h \in BlockSizes, l \in BlockSizes, tail \in Tails}

\* risk scores around the deep-test threshold, and none
DrawnRisks ==
    {EmptyDict, (fill_input :> 7500), (fill_input :> 7501), (click_submit :> 9000)}

RouterInit ==
    /\ \E offered \in {<<>>, <<click_submit, fill_input>>} :
           ui_state = [available_actions |-> offered,
                       observation |-> (W("a") :> IntV(1)),
                       page_url |-> None, page_title |-> None]
    /\ \E step \in {0, MaxSteps}, history \in {<<>>, <<fill_input>>} :
           execution_context =
               [step_count |-> step, max_steps |-> MaxSteps,
                action_history |-> history, previous_state |-> None]
    /\ \E risks \in DrawnRisks :
           knowledge = [baselines |-> EmptyDict, risk_scores |-> risks]
    /\ anomalies \in DrawnLogs
    /\ decision = [next_action |-> None, control |-> "CONTINUE", reasoning |-> None]
    /\ pc = "route"
    /\ interpretation = None
    /\ cycles = 1
    /\ args = None
    /\ returned = None
    /\ observed = <<ui_state.observation>>

RouterNext == Route

RouterSpec == RouterInit /\ [][RouterNext]_vars

----------------------------------------------------------------------------
(* The read-only step on its own: state_interpreter_node run twice on one   *)
(* AgentState                                                               *)

InterpretInit ==
    /\ ui_state \in UIStates
    /\ \E previous \in {None, Some(EmptyDict)} \cup {Some(o) : o \in Observations},
          history \in {<<>>, <<fill_input>>} :
           execution_context =
               [step_count |-> Len(history), max_steps |-> MaxSteps,
                action_history |-> history, previous_state |-> previous]
    /\ \E seed \in Seeds :
           /\ knowledge = seed.knowledge
           /\ anomalies = seed.anomalies
    /\ decision = [next_action |-> None, control |-> "CONTINUE", reasoning |-> None]
    /\ pc = "interpret"
    /\ interpretation = None
    /\ cycles = 1
    /\ args = None
    /\ returned = None
    /\ observed = execution_context.previous_state \o <<ui_state.observation>>

InterpretAgain ==
    /\ pc = "interpret"
    /\ state_interpreter_node
    /\ pc' = IF interpretation = None THEN "interpret" ELSE "interpreted_twice"
    /\ UNCHANGED <<cycles, args, returned, observed>>

InterpretSpec == InterpretInit /\ [][InterpretAgain]_vars

----------------------------------------------------------------------------
(* Functions called on their own: the arguments are drawn from bounded     *)
(* sets, one step applies the function and keeps what it returns           *)

\* no session is running while a function is called on its own
NoSession ==
    /\ ui_state = [available_actions |-> <<>>, observation |-> EmptyDict,
                   page_url |-> None, page_title |-> None]
    /\ execution_context =
           [step_count |-> 0, max_steps |-> MaxSteps,
            action_history |-> <<>>, previous_state |-> None]
    /\ knowledge = [baselines |-> EmptyDict, risk_scores |-> EmptyDict]
    /\ anomalies = <<>>
    /\ decision = [next_action |-> None, control |-> "CONTINUE", reasoning |-> None]
    /\ interpretation = None
    /\ cycles = 0

\* the largest number of keys of a drawn parameters dict
MaxKeys == 2

ParameterKeys ==
    {W("selector"), W("Selector"), W("css_selector"), W("CSS_Selector"),
     W("xpath"), W("XPATH"), W("dom"), W("DOM"), W("dom_id"), W("value")}

DrawnParameters ==
    UNION {[keys -> {StrV(W("v"))}] :
              keys \in {s \in SUBSET ParameterKeys : Cardinality(s) <= MaxKeys}}

DrawnActionIds ==
    {<<>>, <<" ">>, <<" ", " ">>, padded_save, click_submit, fill_input}

ContractArgs ==
    {[f |-> "ActionContract", action_id |-> action_id, parameters |-> parameters] :
        action_id \in DrawnActionIds, parameters \in DrawnParameters}

DrawnObservations == Observations \cup {EmptyDict}

CauseEffectArgs ==
    {[f |-> "check_cause_effect_invariant", action_id |-> action_id,
      previous_observation |-> previous, current_observation |-> current,
      action_was_successful |-> successful] :
        action_id \in {click_submit, fill_input},
        previous \in DrawnObservations, current \in DrawnObservations,
        successful \in BOOLEAN}

Delete_item == <<"Delete", "_item">>
REMOVE_row == <<"REMOVE", "_row">>
undelete_post == <<"un", "delete", "_post">>

EntityIds == {W("u1"), W("p2"), W("c3")}

DrawnEntities == UNION {[ids -> {DictV(EmptyDict)}] : ids \in SUBSET EntityIds}

EntityArgs ==
    {[f |-> "check_entity_continuity", previous_entities |-> previous,
      current_entities |-> current, action_id |-> action_id] :
        previous \in DrawnEntities, current \in DrawnEntities,
        action_id \in {fill_input, click_submit, delete_post, Delete_item,
                       REMOVE_row, undelete_post}}

\* the longest observation history handed to check_forward_progress
MaxHistory == 4

DrawnObservationHistories ==
    UNION {[1..n -> {(K_element_count :> IntV(5)), (K_element_count :> IntV(9))}] :
              n \in 0..MaxHistory}

DrawnActionHistories ==
    {<<>>, <<fill_input>>, <<fill_input, click_submit>>,
     <<fill_input, click_submit, delete_post>>,
     <<fill_input, fill_input, fill_input>>,
     <<fill_input, click_submit, delete_post, fill_input>>}

ProgressArgs ==
    {[f |-> "check_forward_progress", action_history |-> actions,
      observation_history |-> observations, max_identical_observations |-> 3] :
        actions \in DrawnActionHistories,
        observations \in DrawnObservationHistories}

Submit_form == <<"Submit", "_form">>
navigate_home == <<"navigate", "_home">>
create_post == <<"create", "_post">>
update_post == <<"update", "_post">>
login == <<"login">>
relogout == <<"re", "logout">>

\* action ids that contain one of the state-changing keywords, and two that
\* do not
StateChangingIds ==
    {click_submit, Submit_form, navigate_home, create_post, delete_post,
     update_post, login, relogout}

DrawnOffered ==
    {<<>>, <<fill_input>>, <<fill_input, click_submit>>, <<click_submit, fill_input>>,
     <<fill_input, fill_input, click_submit>>,
     <<fill_input, click_submit, delete_post>>}

AvailabilityArgs ==
    {[f |-> "check_action_availability_consistency",
      previous_available_actions |-> previous,
      current_available_actions |-> current, action_executed |-> action] :
        previous \in DrawnOffered, current \in DrawnOffered,
        action \in StateChangingIds \cup {fill_input, padded_save}}

\* API responses: success absent, true or false; status absent, "ok" or "error"
DrawnResponses ==
    {success @@ status :
        success \in {EmptyDict, (W("success") :> BoolV(TRUE)),
                     (W("success") :> BoolV(FALSE))},
        status \in {EmptyDict, (W("status") :> StrV(W("ok"))),
                    (W("status") :> StrV(W("error")))}}

DrawnUIObservations ==
    UNION {[keys -> {IntV(1)}] : keys \in SUBSET {W("a"), W("b")}}

DrawnExpectedFields == {<<>>, <<W("a")>>, <<W("b")>>, <<W("a"), W("b")>>, <<W("c")>>}

ApiUiArgs ==
    {[f |-> "check_api_ui_consistency", api_response |-> response,
      ui_observation |-> observation, expected_ui_fields |-> expected] :
        response \in {None} \cup {Some(r) : r \in DrawnResponses},
        observation \in DrawnUIObservations,
        expected \in DrawnExpectedFields}

\* stored baselines: a mean of 0 and of 200, no deviation and one of 50,
\* provisional and settled counts
DrawnBaselines ==
    {[mean |-> 200 * StatScale, std_dev |-> std_dev * StatScale, count |-> count] :
        std_dev \in {0, 50}, count \in {0, 1, 2, 3, 10}}
    \cup
    {[mean |-> 0, std_dev |-> std_dev * StatScale, count |-> count] :
        std_dev \in {0, 50}, count \in {0, 1, 2, 3}}

\* values at and next to 200 +- 1% and 200 +- 2 * 50, and the values 0, 0.01,
\* 220 and 500
DrawnValues ==
    {0, 1, 9999, 10000, 19799, 19800, 20000, 20200, 20201, 22000, 30000, 30001,
     50000}

StabilityArgs ==
    {[f |-> "check_stability_against_baseline", metric_name |-> K_element_count,
      current_value |-> value, baseline |-> baseline,
      sigma_threshold |-> sigma_threshold] :
        value \in DrawnValues,
        baseline \in {None} \cup {Some(b) : b \in DrawnBaselines}}

CallArgs ==
    ContractArgs \cup CauseEffectArgs \cup EntityArgs \cup ProgressArgs
        \cup AvailabilityArgs \cup ApiUiArgs \cup StabilityArgs

PureInit ==
    /\ NoSession
    /\ pc = "call"
    /\ args \in CallArgs
    /\ returned = None
    /\ observed = <<>>

\* the action histories of the AgentStates detect_anomalies is called on
DetectHistories ==
    {<<>>, <<fill_input>>, <<click_submit>>, <<delete_post>>,
     <<click_submit, fill_input, click_submit>>}

\* observations that carry an API response and the fields it should show
ApiObservations ==
    {(W("a") :> IntV(1))
        @@ (W("_api_response") :> DictV(response))
        @@ (W("_expected_ui_fields") :> ListV(expected)) :
            response \in DrawnResponses, expected \in {<<W("a")>>, <<W("a"), W("b")>>}}
    \cup {(W("a") :> IntV(1)) @@ (W("_api_response") :> DictV(response)) :
            response \in DrawnResponses}

DetectUIStates ==
    UIStates \cup
    {[available_actions |-> <<click_submit, fill_input>>, observation |-> observation,
      page_url |-> Some(page_test), page_title |-> Some(W("Test Page"))] :
        observation \in ApiObservations}

\* observations are untyped: a recognised metric that holds null or a word,
\* and an entities field that holds a list
UntypedMetrics ==
    {(K_element_count :> NoneVal), (K_error_count :> StrV(W("many")))}

UntypedEntities == (W("a") :> IntV(1)) @@ (W("entities") :> ListV(<<W("u1")>>))

UntypedUIStates ==
    {[available_actions |-> <<click_submit, fill_input>>, observation |-> observation,
      page_url |-> Some(page_test), page_title |-> Some(W("Test Page"))] :
        observation \in UntypedMetrics}

\* detect_anomalies called on an AgentState of any cycle of a session
DetectInit ==
    /\ ui_state \in DetectUIStates \cup UntypedUIStates
    /\ \E previous \in {None} \cup {Some(o) : o \in DrawnObservations \cup {UntypedEntities}},
          history \in DetectHistories :
           execution_context =
               [step_count |-> Len(history), max_steps |-> Len(history) + 1,
                action_history |-> history, previous_state |-> previous]
    /\ \E seed \in Seeds :
           /\ knowledge = seed.knowledge
           /\ anomalies = seed.anomalies
    /\ decision = [next_action |-> None, control |-> "CONTINUE", reasoning |-> None]
    /\ pc = "detect_anomalies"
    /\ interpretation = None
    /\ cycles = 1
    /\ args = [f |-> "detect_anomalies"]
    /\ returned = None
    /\ observed = execution_context.previous_state \o <<ui_state.observation>>

CallInit == PureInit \/ DetectInit

CallActionContract ==
    /\ pc = "call"
    /\ args.f = "ActionContract"
    /\ returned' = ActionContract(args.action_id, args.parameters)
    /\ pc' = "returned"
    /\ UNCHANGED <<AgentState, interpretation, cycles, args, observed>>

CallCauseEffect ==
    /\ pc = "call"
    /\ args.f = "check_cause_effect_invariant"
    /\ returned' = check_cause_effect_invariant(
                       args.action_id, args.previous_observation,
                       args.current_observation, args.action_was_successful)
    /\ pc' = "returned"
    /\ UNCHANGED <<AgentState, interpretation, cycles, args, observed>>

CallEntityContinuity ==
    /\ pc = "call"
    /\ args.f = "check_entity_continuity"
    /\ returned' = check_entity_continuity(
                       args.previous_entities, args.current_entities, args.action_id)
    /\ pc' = "returned"
    /\ UNCHANGED <<AgentState, interpretation, cycles, args, observed>>

CallForwardProgress ==
    /\ pc = "call"
    /\ args.f = "check_forward_progress"
    /\ returned' = check_forward_progress(
                       args.action_history, args.observation_history,
                       args.max_identical_observations)
    /\ pc' = "returned"
    /\ UNCHANGED <<AgentState, interpretation, cycles, args, observed>>

CallActionAvailability ==
    /\ pc = "call"
    /\ args.f = "check_action_availability_consistency"
    /\ returned' = check_action_availability_consistency(
                       args.previous_available_actions,
                       args.current_available_actions, args.action_executed)
    /\ pc' = "returned"
    /\ UNCHANGED <<AgentState, interpretation, cycles, args, observed>>

CallApiUiConsistency ==
    /\ pc = "call"
    /\ args.f = "check_api_ui_consistency"
    /\ returned' = check_api_ui_consistency(
                       args.api_response, args.ui_observation, args.expected_ui_fields)
    /\ pc' = "returned"
    /\ UNCHANGED <<AgentState, interpretation, cycles, args, observed>>

CallStability ==
    /\ pc = "call"
    /\ args.f = "check_stability_against_baseline"
    /\ returned' = check_stability_against_baseline(
                       args.metric_name, args.current_value, args.baseline,
                       args.sigma_threshold)
    /\ pc' = "returned"
    /\ UNCHANGED <<AgentState, interpretation, cycles, args, observed>>

CallNext ==
    \/ CallActionContract
    \/ DetectAnomalies
    \/ CallCauseEffect
    \/ CallEntityContinuity
    \/ CallForwardProgress
    \/ CallActionAvailability
    \/ CallApiUiConsistency
    \/ CallStability

CallSpec == CallInit /\ [][CallNext]_vars

----------------------------------------------------------------------------
(* The policies called on their own: policies/risk.py and                   *)
(* policies/exploration.py applied to arguments drawn from bounded sets,    *)
(* and BaselineMetrics.update applied to drawn baselines and to its results *)

\* update_risk_score and BaselineMetrics.update are applied to their own
\* result at most this many times
MaxUpdates == 3

\* scores at both ends of [0, 1], where the representation runs out of
\* digits, and in between
DrawnScores == {0, 1, 2, 4, 5, 6, 100, 5000, 9000, 9900, 9994, 9995, 9998, 9999, 10000}

\* triggered_anomaly and anomaly_severity; "MEDIUM" is the default
Outcomes ==
    {[triggered_anomaly |-> FALSE, anomaly_severity |-> "MEDIUM"]}
    \cup {[triggered_anomaly |-> TRUE, anomaly_severity |-> severity] :
              severity \in {"LOW", "MEDIUM", "HIGH", "CRITICAL"}}

RiskArgs ==
    {[f |-> "update_risk_score", action_id |-> fill_input, current_risk |-> score,
      triggered_anomaly |-> outcome.triggered_anomaly,
      anomaly_severity |-> outcome.anomaly_severity, updates |-> 1] :
        score \in DrawnScores, outcome \in Outcomes}

\* offered sets in both orders, and one that offers an action twice
SelectOffered ==
    {<<>>, <<click_submit>>, <<click_submit, fill_input>>, <<fill_input, click_submit>>,
     <<click_submit, fill_input, delete_post>>, <<delete_post, fill_input, click_submit>>,
     <<click_submit, fill_input, click_submit>>}

\* action histories that execute click_submit 0, 1, 2 and 3 times
SelectHistories ==
    {<<>>, <<click_submit>>, <<fill_input>>, <<click_submit, fill_input>>,
     <<click_submit, click_submit>>,
     <<click_submit, click_submit, fill_input, click_submit>>}

\* a score for click_submit and fill_input each, or none; Dict[str, float]
\* holds any float, those above 1.0 and those below 0.0 as well
SelectScores == {-10000, 0, 5000, 9000, 9001, 10000, 12000}

SelectRisks ==
    {EmptyDict}
    \cup {(click_submit :> a) : a \in SelectScores}
    \cup {(fill_input :> b) : b \in SelectScores}
    \cup {(click_submit :> a) @@ (fill_input :> b) : a, b \in SelectScores}
    \cup {(click_submit :> a) @@ (fill_input :> a) @@ (delete_post :> a) :
              a \in {9001, 12000}}

\* the threshold of the planner, 0.9
SelectArgs ==
    {[f |-> "select_action_by_coverage", available_actions |-> offered,
      action_history |-> history, risk_scores |-> risks,
      max_risk_threshold |-> MaxRiskThreshold] :
        offered \in SelectOffered, history \in SelectHistories, risks \in SelectRisks}

\* baselines for BaselineMetrics.update: a mean of 0 and of 200, no deviation
\* and one of 50, counts 0, 1 and 2; and a count of 0 stored with a mean whose
\* distance to a small value is no float (from_dict gives the count 0 to
\* every stored dictionary that has no "count")
UpdateBaselines ==
    {BaselineMetrics(mean * StatScale, std_dev * StatScale, count) :
        mean \in {0, 200}, std_dev \in {0, 50}, count \in {0, 1, 2}}
    \cup {BaselineMetrics(Pow2(MantissaBits + 1) + 4, 0, 0)}

\* the values 0, 0.01, 0.03, 200 and 220
UpdateValues == {0, 1, 3, 20000, 22000}

UpdateArgs ==
    {[f |-> "update", self |-> baseline, new_value |-> value, updates |-> 1] :
        baseline \in UpdateBaselines, value \in UpdateValues}

PolicyArgs == RiskArgs \cup SelectArgs \cup UpdateArgs

PolicyInit ==
    /\ NoSession
    /\ pc = "call"
    /\ args \in PolicyArgs
    /\ returned = None
    /\ observed = <<>>

CallUpdateRiskScore ==
    /\ pc = "call"
    /\ args.f = "update_risk_score"
    /\ returned' = update_risk_score(args.action_id, args.current_risk,
                                     args.triggered_anomaly, args.anomaly_severity)
    /\ pc' = "returned"
    /\ UNCHANGED <<AgentState, interpretation, cycles, args, observed>>

\* the caller stores the result and updates it again, with any outcome
UpdateRiskScoreAgain ==
    /\ pc = "returned"
    /\ args.f = "update_risk_score"
    /\ args.updates < MaxUpdates
    /\ \E outcome \in Outcomes :
           args' = [args EXCEPT !.current_risk = returned,
                                !.triggered_anomaly = outcome.triggered_anomaly,
                                !.anomaly_severity = outcome.anomaly_severity,
                                !.updates = @ + 1]
    /\ returned' = None
    /\ pc' = "call"
    /\ UNCHANGED <<AgentState, interpretation, cycles, observed>>

\* a call that recurses without end never returns
CallSelectAction ==
    /\ pc = "call"
    /\ args.f = "select_action_by_coverage"
    /\ LET result == select_action_by_coverage(args.available_actions,
                                               args.action_history, args.risk_scores,
                                               args.max_risk_threshold)
       IN  IF result.diverges
           THEN pc' = "diverged" /\ UNCHANGED returned
           ELSE pc' = "returned" /\ returned' = result.selected
    /\ UNCHANGED <<AgentState, interpretation, cycles, args, observed>>

CallUpdate ==
    /\ pc = "call"
    /\ args.f = "update"
    /\ returned' = update(args.self, args.new_value)
    /\ pc' = "returned"
    /\ UNCHANGED <<AgentState, interpretation, cycles, args, observed>>

\* the caller stores the result and updates it with the next value; a
\* baseline whose std_dev is complex is followed no further
UpdateAgain ==
    /\ pc = "returned"
    /\ args.f = "update"
    /\ args.updates < MaxUpdates
    /\ returned.std_dev >= 0
    /\ \E value \in UpdateValues :
           args' = [args EXCEPT !.self = returned, !.new_value = value,
                                !.updates = @ + 1]
    /\ returned' = None
    /\ pc' = "call"
    /\ UNCHANGED <<AgentState, interpretation, cycles, observed>>

PolicyNext ==
    \/ CallUpdateRiskScore
    \/ UpdateRiskScoreAgain
    \/ CallSelectAction
    \/ CallUpdate
    \/ UpdateAgain

PolicySpec == PolicyInit /\ [][PolicyNext]_vars

----------------------------------------------------------------------------
(* The planner run twice: on an AgentState whose control is CONTINUE and on  *)
(* a copy of it whose control is DEEP_TEST                                   *)

\* logs that attribute reports to offered actions, and none
TwinLogs ==
    {<<>>,
     <<LogEntry("HIGH", "INVARIANT_VIOLATION")>>,
     <<LogEntry("MEDIUM", "REGRESSION"), LogEntry("LOW", "INSTABILITY")>>}

TwinRisks == DrawnRisks \cup {(click_submit :> 8000) @@ (fill_input :> 2000)}

TwinInit ==
    /\ \E offered \in OfferedSets \ {<<>>} :
           ui_state = [available_actions |-> offered,
                       observation |-> (W("a") :> IntV(1)),
                       page_url |-> Some(page_test), page_title |-> None]
    /\ \E history \in {<<>>, <<fill_input>>, <<click_submit, fill_input>>} :
           execution_context =
               [step_count |-> Len(history), max_steps |-> Len(history) + 1,
                action_history |-> history, previous_state |-> None]
    /\ \E risks \in TwinRisks :
           knowledge = [baselines |-> EmptyDict, risk_scores |-> risks]
    /\ anomalies \in TwinLogs
    /\ decision = [next_action |-> None, control |-> "CONTINUE", reasoning |-> None]
    /\ pc = "plan_action"
    /\ interpretation = None
    /\ cycles = 1
    /\ args = [f |-> "action_planner_node", knowledge |-> knowledge,
               decision |-> decision]
    /\ returned = None
    /\ observed = <<ui_state.observation>>

\* the caller keeps what the planner wrote and hands it the copy whose
\* control is DEEP_TEST
PlanTwin ==
    /\ pc = "learn"
    /\ returned = None
    /\ returned' = Some([next_action |-> decision.next_action,
                         risk_scores |-> knowledge.risk_scores])
    /\ knowledge' = args.knowledge
    /\ decision' = [args.decision EXCEPT !.control = "DEEP_TEST"]
    /\ pc' = "plan_action"
    /\ UNCHANGED <<ui_state, execution_context, anomalies, interpretation, cycles,
                   args, observed>>

TwinNext ==
    \/ PlanAction
    \/ PlanTwin

TwinSpec == TwinInit /\ [][TwinNext]_vars

----------------------------------------------------------------------------
(* A longer session over fewer inputs: the application offers actions in    *)
(* every cycle and the step limit is not reached                            *)

\* graph invocations of the longer session
LongCycles == 4

\* the application counts the successful saves and shows the counter
K_save_success_count == <<"save", "_success", "_count">>

LongObservations ==
    {(K_element_count :> IntV(5)),
     (K_element_count :> IntV(9)),
     (W("a") :> IntV(1)) @@ (W("entities") :> entities_u1),
     (K_save_success_count :> IntV(3))}

LongUIStates ==
    {[available_actions |-> offered, observation |-> observation,
      page_url |-> Some(page_test), page_title |-> Some(W("Test Page"))] :
        offered \in {<<click_submit, fill_input>>, <<fill_input, delete_post>>,
                     <<padded_save>>},
        observation \in LongObservations}

LongInit ==
    /\ ui_state \in LongUIStates
    /\ execution_context =
           [step_count |-> 0, max_steps |-> LongCycles,
            action_history |-> <<>>, previous_state |-> None]
    /\ knowledge = [baselines |-> EmptyDict, risk_scores |-> EmptyDict]
    /\ anomalies = <<>>
    /\ decision = [next_action |-> None, control |-> "CONTINUE", reasoning |-> None]
    /\ pc = "interpret"
    /\ interpretation = None
    /\ cycles = 1
    /\ args = None
    /\ returned = None
    /\ observed = <<ui_state.observation>>

\* the driver executes the decided action and observes the application again
LongAdvance ==
    /\ pc = "end"
    /\ cycles < LongCycles
    /\ decision.control # "TERMINATE"
    /\ decision.next_action # None
    /\ ui_state' \in LongUIStates
    /\ execution_context' =
           [execution_context EXCEPT
               !.step_count = @ + 1,
               !.action_history = Append(@, The(decision.next_action).action_id),
               !.previous_state = Some(ui_state.observation)]
    /\ pc' = "interpret"
    /\ cycles' = cycles + 1
    /\ observed' = Append(observed, ui_state'.observation)
    /\ UNCHANGED <<knowledge, decision, anomalies, interpretation, args, returned>>

LongNext ==
    \/ Interpret
    \/ DetectAnomalies
    \/ Route
    \/ PlanAction
    \/ Learn
    \/ LongAdvance

LongSpec == LongInit /\ [][LongNext]_vars

----------------------------------------------------------------------------
(* Sessions that reach their step limit early: max_steps is 1 or more, and  *)
(* the caller goes on invoking cycles after the limit is reached            *)

\* a new AgentState, or one that carries over a report attributed to
\* click_submit and risk scores; Dict[str, float] holds any float, here one
\* above 1.0
StepSeeds ==
    {[knowledge |-> [baselines |-> EmptyDict, risk_scores |-> EmptyDict],
      anomalies |-> <<>>],
     [knowledge |-> [baselines |-> EmptyDict,
                     risk_scores |-> (click_submit :> 12000) @@ (fill_input :> 2000)],
      anomalies |-> <<AnomalyReport("HIGH", "INVARIANT_VIOLATION", Some(click_submit),
                                    "Critical violation", None)>>]}

StepInit ==
    /\ ui_state \in UIStates
    /\ \E max_steps \in 1..MaxSteps :
           execution_context =
               [step_count |-> 0, max_steps |-> max_steps,
                action_history |-> <<>>, previous_state |-> None]
    /\ \E seed \in StepSeeds :
           /\ knowledge = seed.knowledge
           /\ anomalies = seed.anomalies
    /\ decision = [next_action |-> None, control |-> "CONTINUE", reasoning |-> None]
    /\ pc = "interpret"
    /\ interpretation = None
    /\ cycles = 1
    /\ args = None
    /\ returned = None
    /\ observed = <<ui_state.observation>>

StepSpec == StepInit /\ [][Next]_vars

----------------------------------------------------------------------------
(* Properties *)

\* the router of the running cycle has decided
Routed == pc \in {"plan_action", "learn", "end"}

\* the cycle has run to its end
CycleDone == pc = "end"

Offered == Elements(ui_state.available_actions)

\* the given log is the start of the other one
IsPrefix(s, t) == Len(s) <= Len(t) /\ SubSeq(t, 1, Len(s)) = s

\* C1 (never-invent): after every reasoning cycle, a next_action that is set
\* names an action of the set offered in that cycle.
C1_NeverInvent ==
    CycleDone /\ decision.next_action # None
        => The(decision.next_action).action_id \in Offered

\* C2 (the Decision is replaced each cycle): after a cycle that decided
\* TERMINATE, next_action is None, whatever the state carried in.
C2_TerminateClearsNextAction ==
    CycleDone /\ decision.control = "TERMINATE" => decision.next_action = None

\* C3 (router priority): with an empty offered set the cycle decides
\* TERMINATE, whatever the step counters, the log and the risk scores are.
C3_EmptyOfferedTerminates ==
    Routed /\ ui_state.available_actions = <<>> => decision.control = "TERMINATE"

\* an empty offered set ending a cycle that would otherwise go on to a deep
\* test
C3_Witness ==
    /\ CycleDone
    /\ ui_state.available_actions = <<>>
    /\ execution_context.step_count < execution_context.max_steps
    /\ \E i \in DOMAIN anomalies :
           i > Len(anomalies) - 3 /\ anomalies[i].severity = "MEDIUM"
    /\ decision.control = "TERMINATE"

\* the anomaly conditions of the decision table, stated over the positions of
\* the log
RecentPositions(n) == {i \in DOMAIN anomalies : i > Len(anomalies) - n}

HighPositions(positions) == {i \in positions : anomalies[i].severity = "HIGH"}

AnomalyRuleHolds ==
    \/ Cardinality(HighPositions(RecentPositions(5))) >= 3
    \/ Len(anomalies) >= 3 /\ HighPositions(RecentPositions(3)) = RecentPositions(3)
    \/ /\ Len(anomalies) > 20
       /\ 2 * Cardinality(HighPositions(DOMAIN anomalies)) > Len(anomalies)

DeepTestHolds ==
    \/ \E i \in RecentPositions(3) :
           anomalies[i].severity = "MEDIUM" \/ anomalies[i].category = "REGRESSION"
    \/ /\ execution_context.action_history # <<>>
       /\ LET last == execution_context.action_history[
                           Len(execution_context.action_history)]
          IN  (IF last \in DOMAIN knowledge.risk_scores
               THEN knowledge.risk_scores[last] ELSE 5000) > 7500

\* C4 (step limit): with step_count >= max_steps the cycle decides TERMINATE;
\* with a non-empty offered set and step_count < max_steps it decides
\* TERMINATE only when an anomaly condition holds, never for the step rule.
C4_StepLimit ==
    Routed =>
        /\ (execution_context.step_count >= execution_context.max_steps
               => decision.control = "TERMINATE")
        /\ ((/\ ui_state.available_actions # <<>>
             /\ execution_context.step_count < execution_context.max_steps
             /\ decision.control = "TERMINATE")
               => (/\ AnomalyRuleHolds
                   /\ The(decision.reasoning).text # "Maximum steps reached"))

\* the step limit ending a cycle that was offered actions
C4_Witness ==
    /\ CycleDone
    /\ ui_state.available_actions # <<>>
    /\ execution_context.step_count = execution_context.max_steps
    /\ ~AnomalyRuleHolds
    /\ decision.control = "TERMINATE"

\* C5 (router decision table): with a non-empty offered set and step_count <
\* max_steps, control is TERMINATE iff an anomaly condition holds, otherwise
\* DEEP_TEST iff a deep-test condition holds, otherwise CONTINUE.
C5_DecisionTable ==
    (/\ pc # "route"
     /\ ui_state.available_actions # <<>>
     /\ execution_context.step_count < execution_context.max_steps)
        => decision.control =
              (IF AnomalyRuleHolds THEN "TERMINATE"
               ELSE IF DeepTestHolds THEN "DEEP_TEST"
               ELSE "CONTINUE")

\* a deep test decided by the risk of the last action alone
C5_Witness ==
    /\ pc # "route"
    /\ ui_state.available_actions # <<>>
    /\ execution_context.step_count < execution_context.max_steps
    /\ Len(anomalies) > 20
    /\ ~AnomalyRuleHolds
    /\ \A i \in RecentPositions(3) :
           anomalies[i].severity # "MEDIUM" /\ anomalies[i].category # "REGRESSION"
    /\ decision.control = "DEEP_TEST"

\* C6 (TERMINATE names its condition): a TERMINATE decision carries a
\* reasoning that names a condition that holds, and the one of highest
\* priority: the empty offered set, then the step limit, then the anomalies.
C6_TerminateReason ==
    CycleDone /\ decision.control = "TERMINATE" =>
        /\ decision.reasoning # None
        /\ The(decision.reasoning).prefix = "TERMINATE"
        /\ The(decision.reasoning).text =
              IF ui_state.available_actions = <<>>
              THEN "No available actions remaining"
              ELSE IF execution_context.step_count >= execution_context.max_steps
              THEN "Maximum steps reached"
              ELSE IF Cardinality(HighPositions(RecentPositions(5))) >= 3
              THEN "Repeated high-severity anomalies"
              ELSE IF Len(anomalies) >= 3
                      /\ HighPositions(RecentPositions(3)) = RecentPositions(3)
              THEN "Three consecutive high-severity anomalies detected"
              ELSE "Excessive anomaly rate (>50% high severity)"

\* all three kinds of condition hold at once, and the empty offered set is
\* the one named
C6_Witness ==
    /\ CycleDone
    /\ decision.control = "TERMINATE"
    /\ ui_state.available_actions = <<>>
    /\ execution_context.step_count >= execution_context.max_steps
    /\ AnomalyRuleHolds
    /\ The(decision.reasoning).text = "No available actions remaining"

\* C7 (TERMINATE is terminal): once a cycle has decided TERMINATE, no later
\* cycle on the same AgentState decides CONTINUE or DEEP_TEST.
C7_TerminateIsTerminal ==
    [][decision.control = "TERMINATE" => decision'.control = "TERMINATE"]_vars

\* C8 (append-only log): every step, of a cycle or of the driver, leaves the
\* log it found as a prefix of the log it leaves.
C8_AppendOnly == [][IsPrefix(anomalies, anomalies')]_vars

\* detection has extended a log carried in from an earlier session
C8_Witness ==
    /\ pc = "route"
    /\ Len(anomalies) > 2
    /\ anomalies[1] = SeedAnomaly("action_1")
    /\ anomalies[Len(anomalies)].description # "Critical violation"

\* C9 (read/write partition): no step of a reasoning cycle changes ui_state
\* or execution_context.
C9_InputsReadOnly ==
    [][pc # "end" => ui_state' = ui_state /\ execution_context' = execution_context]_vars

\* a full cycle has written the decision, the log and both parts of knowledge
C9_Witness ==
    /\ CycleDone
    /\ cycles = 1
    /\ decision.next_action # None
    /\ anomalies # <<>>
    /\ DOMAIN knowledge.baselines # {}
    /\ DOMAIN knowledge.risk_scores # {}

\* C10 (idempotent read step): the interpretation step leaves every field of
\* the AgentState as it was, and run a second time on the same AgentState
\* it returns what it returned the first time.
C10_IdempotentRead ==
    [][/\ AgentState' = AgentState
       /\ (interpretation # None => interpretation' = interpretation)]_vars

\* the second run, on a state with a previous observation to compare with
C10_Witness ==
    /\ pc = "interpreted_twice"
    /\ interpretation # None
    /\ The(interpretation).state_delta # None
    /\ ~The(The(interpretation).state_delta).unchanged

Returned(f) == pc = "returned" /\ args.f = f

\* C11 (ActionContract validation): construction is rejected exactly when
\* action_id is empty or whitespace-only, or some parameters key lower-cases
\* to selector, css_selector, xpath or dom; every other pair is accepted with
\* its parameters unchanged.
C11_ContractValidation ==
    Returned("ActionContract") =>
        LET blank ==
                \A i \in DOMAIN args.action_id : args.action_id[i] \in Whitespace
            forbidden ==
                \E key \in DOMAIN args.parameters :
                    lower(key) \in {W("selector"), W("css_selector"),
                                    W("xpath"), W("dom")}
        IN  /\ returned.raised <=> (blank \/ forbidden)
            /\ ~returned.raised => returned.value.parameters = args.parameters

\* a forbidden key in capitals rejected with a valid action_id, next to a
\* key that is allowed
C11_Witness ==
    /\ Returned("ActionContract")
    /\ args.action_id = click_submit
    /\ DOMAIN args.parameters = {W("XPATH"), W("dom_id")}
    /\ returned.raised

\* the reports the running detect_anomalies step appends to the log
Appended == {anomalies'[i] : i \in (Len(anomalies) + 1)..Len(anomalies')}

\* the action executed last, in a cycle that has one
ExecutedLast ==
    execution_context.action_history[Len(execution_context.action_history)]

\* the cycle has an executed action and a previous observation
HasPrevious ==
    /\ execution_context.action_history # <<>>
    /\ execution_context.previous_state # None
    /\ The(execution_context.previous_state) # EmptyDict

Detecting == pc = "detect_anomalies" /\ pc' = "route"

C13_EntityContinuity ==
    Returned("check_entity_continuity") =>
        LET disappeared ==
                DOMAIN args.previous_entities \ DOMAIN args.current_entities
            names_deletion ==
                args.action_id \in {delete_post, Delete_item, REMOVE_row, undelete_post}
        IN  /\ returned.violated <=> (disappeared # {} /\ ~names_deletion)
            /\ returned.violated
                   => The(returned.evidence).disappeared = disappeared

\* two entities gone, one kept and one new, after an action that deletes nothing
C13_Witness ==
    /\ Returned("check_entity_continuity")
    /\ DOMAIN args.previous_entities = EntityIds
    /\ DOMAIN args.current_entities = {W("p2")}
    /\ args.action_id = click_submit
    /\ returned.violated
    /\ The(returned.evidence).disappeared = {W("u1"), W("c3")}

\* C14 (Forward Progress check): with N = 3, the check reports a violation
\* iff the observation history has at least N entries, its last N entries are
\* all equal and at least N actions were executed; with fewer than N
\* observations it reports none.
C14_ForwardProgress ==
    Returned("check_forward_progress") =>
        LET observations == args.observation_history
            n == Len(observations)
        IN  /\ returned.violated
                   <=> (/\ n >= 3
                        /\ \A i \in (n - 2)..n, j \in (n - 2)..n :
                               observations[i] = observations[j]
                        /\ Len(args.action_history) >= 3)
            /\ n < 3 => ~returned.violated

\* a stall reported for a history whose older part differs and whose last
\* three observations are equal
C14_Witness ==
    /\ Returned("check_forward_progress")
    /\ Len(args.observation_history) = 4
    /\ args.observation_history[1] # args.observation_history[2]
    /\ args.action_history = <<fill_input, click_submit, delete_post>>
    /\ returned.violated

\* the last three observations of the session are equal and three or more
\* actions were executed
Stalled ==
    /\ Len(observed) >= 3
    /\ \A i \in (Len(observed) - 2)..Len(observed) :
           observed[i] = observed[Len(observed)]
    /\ Len(execution_context.action_history) >= 3

\* C15 (stall detection in the cycle): in a session whose last 3 observations
\* are identical while 3 or more actions were executed, the cycle appends a
\* HIGH / INSTABILITY anomaly to the log.
C15_StallReported ==
    [][Detecting /\ Stalled
          => \E r \in Appended : r.severity = "HIGH" /\ r.category = "INSTABILITY"]_vars

\* C16 (Action-Availability Consistency): the check reports a violation iff
\* the executed action's identifier contains, in any letter case, one of
\* submit, navigate, create, delete, update, login, logout and the previous
\* and the current offered lists are equal as unordered sets; for any other
\* identifier it reports none.
C16_ActionAvailability ==
    Returned("check_action_availability_consistency") =>
        LET previous == args.previous_available_actions
            current == args.current_available_actions
            same_set ==
                /\ \A i \in DOMAIN previous : \E j \in DOMAIN current :
                       previous[i] = current[j]
                /\ \A j \in DOMAIN current : \E i \in DOMAIN previous :
                       current[j] = previous[i]
        IN  returned.violated
                <=> (args.action_executed \in StateChangingIds /\ same_set)

\* a violation for a keyword in capitals and two offered lists that differ in
\* order and repetition only
C16_Witness ==
    /\ Returned("check_action_availability_consistency")
    /\ args.action_executed = Submit_form
    /\ args.previous_available_actions = <<fill_input, fill_input, click_submit>>
    /\ args.current_available_actions = <<click_submit, fill_input>>
    /\ returned.violated

\* the response says success == true or status == "ok"
SignalsSuccess(response) ==
    \/ W("success") \in DOMAIN response /\ response[W("success")] = BoolV(TRUE)
    \/ W("status") \in DOMAIN response /\ response[W("status")] = StrV(W("ok"))

SomeMissing(fields, observation) ==
    \E i \in DOMAIN fields : fields[i] \notin DOMAIN observation

NotReported(description) == \A r \in Appended : r.description # description

StabilityDescriptions ==
    {"Stability violation: deviated from perfect baseline",
     "Stability violation: exceeded threshold"}

NoPreviousObservation == execution_context.previous_state = None

NoExecutedAction == execution_context.action_history = <<>>

NoApiResponse == W("_api_response") \notin DOMAIN ui_state.observation

NoOfferedRecord ==
    \/ NoPreviousObservation
    \/ W("_available_actions") \notin DOMAIN The(execution_context.previous_state)

\* C18 (missing-input degradation): a check whose required input is absent
\* in a cycle (no previous observation, no executed action, no API response,
\* no stored baseline, no record of the previously offered action set)
\* appends no anomaly in that cycle.
C18_MissingInputs ==
    [][Detecting =>
          /\ (NoPreviousObservation \/ NoExecutedAction
                 => /\ NotReported("Cause-Effect violation")
                    /\ NotReported("Entity Continuity violation")
                    /\ NotReported("Action Availability violation"))
          /\ (NoApiResponse => NotReported("API-UI Consistency violation"))
          /\ (\A r \in Appended :
                  r.description \in StabilityDescriptions
                      => The(r.evidence).metric \in DOMAIN knowledge.baselines)
          /\ (NoOfferedRecord => NotReported("Action Availability violation"))]_vars

\* the documented example: the baseline {mean 200, std_dev 50, count 10}
ExampleBaseline ==
    Some([mean |-> 200 * StatScale, std_dev |-> 50 * StatScale, count |-> 10])

\* C19 (baseline stability decision): no violation without a baseline (which
\* is initialised to mean = x, std_dev = 0, count = 1) or with count < 3; with
\* count >= 3 and std_dev = 0 a violation iff |x - mean| > 1% of |mean|; with
\* count >= 3 and std_dev > 0 a violation iff |x - mean| / std_dev > 2; for
\* the baseline {200, 50, 10}, 220 does not violate and 500 does.
C19_StabilityDecision ==
    Returned("check_stability_against_baseline") =>
        LET x == args.current_value
            violated == returned[1].violated
        IN  /\ args.baseline = None
                   => /\ ~violated
                      /\ returned[2] = [mean |-> x, std_dev |-> 0, count |-> 1]
            /\ args.baseline # None
                   => LET stored == The(args.baseline)
                          distance == IF x >= stored.mean THEN x - stored.mean
                                      ELSE stored.mean - x
                          size == IF stored.mean >= 0 THEN stored.mean
                                  ELSE -stored.mean
                      IN  /\ stored.count < 3 => ~violated
                          /\ stored.count >= 3 /\ stored.std_dev = 0
                                 => (violated <=> 100 * distance > size)
                          /\ stored.count >= 3 /\ stored.std_dev > 0
                                 => (violated <=> distance > 2 * stored.std_dev)
            /\ args.baseline = ExampleBaseline /\ x = 220 * StatScale => ~violated
            /\ args.baseline = ExampleBaseline /\ x = 500 * StatScale => violated

\* the documented violation: 500 against the baseline {200, 50, 10}
C19_Witness ==
    /\ Returned("check_stability_against_baseline")
    /\ args.baseline = ExampleBaseline
    /\ args.current_value = 500 * StatScale
    /\ returned[1].violated

\* C20 (violations do not freeze learning): whenever a baseline exists, the
\* returned baseline is the stored one updated with the new value, its count
\* increased by exactly 1, whether or not a violation is reported.
C20_BaselineAlwaysUpdated ==
    Returned("check_stability_against_baseline") /\ args.baseline # None =>
        /\ returned[2].count = The(args.baseline).count + 1
        /\ returned[2] = update(The(args.baseline), args.current_value)

\* a reported violation whose value has moved the mean of a baseline without
\* deviation
C20_Witness ==
    /\ Returned("check_stability_against_baseline")
    /\ args.baseline # None
    /\ The(args.baseline).std_dev = 0
    /\ The(args.baseline).count = 3
    /\ returned[1].violated
    /\ returned[2].count = 4
    /\ returned[2].mean # The(args.baseline).mean

----------------------------------------------------------------------------
(* Risk scores *)

IsScore(x) == x \in 0..RiskScale

\* the exact change of a score is at least half a unit of the representation
\* away from zero, so that the nearest representable result is another number
Representable(change_num, change_den) == 2 * change_num > change_den

\* C21, as stated: a score in [0, 1] stays in [0, 1] under update_risk_score;
\* a HIGH attribution strictly raises every score below 1.0 and a clean update
\* strictly lowers every score above 0.0
C21_RiskClamping ==
    (Returned("update_risk_score") /\ IsScore(args.current_risk)) =>
        /\ IsScore(returned)
        /\ ((args.triggered_anomaly /\ args.anomaly_severity = "HIGH"
                /\ args.current_risk < RiskScale)
            => returned > args.current_risk)
        /\ ((~args.triggered_anomaly /\ args.current_risk > 0)
            => returned < args.current_risk)

\* C21, amended: a score in [0, 1] stays in [0, 1]; a HIGH attribution never
\* lowers a score and strictly raises it when the increase
\* (1 - score) * 0.2 * 0.9 is representable at the score; a clean update never
\* raises a score and strictly lowers it when the decrease score * 0.1 is
\* representable
C21_RiskClampingRepresentable ==
    (Returned("update_risk_score") /\ IsScore(args.current_risk)) =>
        /\ IsScore(returned)
        /\ (args.triggered_anomaly => returned >= args.current_risk)
        /\ ((args.triggered_anomaly /\ args.anomaly_severity = "HIGH"
                /\ Representable((RiskScale - args.current_risk)
                                     * LearningRatePerCent * severity_weights("HIGH"),
                                 100 * 100))
            => returned > args.current_risk)
        /\ (~args.triggered_anomaly => returned <= args.current_risk)
        /\ ((~args.triggered_anomaly
                /\ Representable(args.current_risk * LearningRatePerCent, 200))
            => returned < args.current_risk)

\* a score raised by a HIGH attribution after an earlier update, up to 1.0
\* and not beyond, and a score lowered by a clean update
C21_Witness ==
    /\ Returned("update_risk_score")
    /\ args.updates > 1
    /\ args.triggered_anomaly /\ args.anomaly_severity = "HIGH"
    /\ args.current_risk < RiskScale
    /\ returned > args.current_risk
    /\ returned > 9900

\* the step of the planner, the only step of a cycle that writes risk scores
Planning == pc = "plan_action" /\ pc' = "learn"

\* no anomaly of the window the planner reads names the last executed action
CleanInWindow ==
    /\ HasStr(last_action)
    /\ \A i \in DOMAIN LastN(anomalies, RecentAnomaliesOnly) :
           LastN(anomalies, RecentAnomaliesOnly)[i].action_id # last_action

\* C22: in a cycle that plans, a last executed action with no anomaly in the
\* window has its risk score (0.5 when unseen) multiplied by 0.9
C22_RiskDecay ==
    [][(Planning /\ CleanInWindow) =>
          /\ The(last_action) \in DOMAIN knowledge'.risk_scores
          /\ knowledge'.risk_scores[The(last_action)]
                = update_risk_score(The(last_action),
                                    Get(knowledge.risk_scores, The(last_action),
                                        DefaultRisk),
                                    FALSE, "MEDIUM")]_vars

----------------------------------------------------------------------------
(* Action selection *)

\* the coverage of an action executed n times, as a fraction
Coverage(n) ==
    IF n = 0 THEN [num |-> 1, den |-> 1]
    ELSE IF n = 1 THEN [num |-> 1, den |-> 2]
    ELSE [num |-> 1, den |-> n + 1]

Executions(a) == Cardinality({i \in DOMAIN args.action_history : args.action_history[i] = a})

RiskOf(a) == IF a \in DOMAIN args.risk_scores THEN args.risk_scores[a] ELSE DefaultRisk

\* 0.7 * coverage + 0.3 * (1 - risk), times 10 * RiskScale, as a fraction
Score(a) ==
    [num |-> 7 * RiskScale * Coverage(Executions(a)).num
                + 3 * (RiskScale - RiskOf(a)) * Coverage(Executions(a)).den,
     den |-> Coverage(Executions(a)).den]

AtLeast(x, y) == x.num * y.den >= y.num * x.den

\* the positions of the offered actions the threshold admits
Admitted ==
    {i \in DOMAIN args.available_actions :
        RiskOf(args.available_actions[i]) <= args.max_risk_threshold}

\* C23: when the threshold admits some offered action, the selection is the
\* admitted action of the largest combined score, the first in the offered
\* order among those of the largest score
C23_SelectsFirstBest ==
    (Returned("select_action_by_coverage") /\ Admitted # {}) =>
        \E i \in Admitted :
            /\ returned = Some(args.available_actions[i])
            /\ \A j \in Admitted :
                   AtLeast(Score(args.available_actions[i]), Score(args.available_actions[j]))
            /\ \A j \in Admitted :
                   (j < i /\ args.available_actions[j] # args.available_actions[i])
                   => ~AtLeast(Score(args.available_actions[j]),
                               Score(args.available_actions[i]))

\* two different admitted actions of the same, largest score and an offered
\* action the threshold excludes: the first of the two is selected
C23_Witness ==
    /\ Returned("select_action_by_coverage")
    /\ Admitted # DOMAIN args.available_actions
    /\ \E i, j \in Admitted :
           /\ i < j
           /\ args.available_actions[i] # args.available_actions[j]
           /\ AtLeast(Score(args.available_actions[i]), Score(args.available_actions[j]))
           /\ AtLeast(Score(args.available_actions[j]), Score(args.available_actions[i]))
           /\ returned = Some(args.available_actions[i])

----------------------------------------------------------------------------
(* The order of the steps *)

\* the place of a step in one invocation of the graph
StepOrder(step) ==
    CASE step = "interpret" -> 1
      [] step = "detect_anomalies" -> 2
      [] step = "route" -> 3
      [] step = "plan_action" -> 4
      [] step = "learn" -> 5
      [] OTHER -> 6

LearnerKey(k) ==
    /\ k # <<>>
    /\ \/ <<k[Len(k)]>> = Suffix_success_rate
       \/ <<k[1]>> = Prefix_page_visits

\* C26: up to and including the router no step writes a risk score, the next
\* action or a baseline of the learner, and a router that decides TERMINATE
\* ends the invocation: a TERMINATE cycle changes only the detection-time
\* baselines, the anomaly log and decision.control and decision.reasoning
C26_TerminateDoesNoPlanning ==
    [][/\ (pc \in {"interpret", "detect_anomalies", "route"} =>
              /\ knowledge'.risk_scores = knowledge.risk_scores
              /\ decision'.next_action = decision.next_action
              /\ \A k \in DOMAIN knowledge'.baselines :
                     LearnerKey(k) =>
                        /\ k \in DOMAIN knowledge.baselines
                        /\ knowledge'.baselines[k] = knowledge.baselines[k]
              /\ ui_state' = ui_state
              /\ execution_context' = execution_context)
       /\ ((pc = "route" /\ decision'.control = "TERMINATE") => pc' = "end")]_vars

\* a TERMINATE cycle over a non-empty offered set, at whose end the planner
\* would have moved the risk scores
C26_Witness ==
    /\ pc = "end"
    /\ decision.control = "TERMINATE"
    /\ ui_state.available_actions # <<>>
    /\ updated_risks # knowledge.risk_scores

----------------------------------------------------------------------------
(* Totality *)

\* C27: detection returns for every observation and previous observation,
\* whatever the values they hold; it never raises
C27_Totality == args.f = "detect_anomalies" => pc # "raised"

----------------------------------------------------------------------------
(* What the router sees *)

\* C28: the router evaluates the log detection has just extended: when three
\* or more of its last five reports are HIGH, the same cycle decides TERMINATE
\* and ends, and the log the router read is the one detection left
C28_SameCycleVisibility ==
    [][/\ (pc = "detect_anomalies" /\ pc' = "route" =>
              anomalies' = anomalies \o detect_anomalies)
       /\ ((pc = "route" /\ high_count(LastN(anomalies, 5)) >= 3) =>
              /\ decision'.control = "TERMINATE"
              /\ pc' = "end"
              /\ anomalies' = anomalies)]_vars

\* the first cycle of a session that started from two HIGH reports: its
\* detection appended the third, and it decided TERMINATE
C28_Witness ==
    /\ pc = "end"
    /\ cycles = 1
    /\ decision.control = "TERMINATE"
    /\ ui_state.available_actions # <<>>
    /\ Len(anomalies) >= 3
    /\ high_count(LastN(anomalies, 5)) = 3

----------------------------------------------------------------------------
(* What the learner stores *)

Learning == pc = "learn" /\ pc' = "end"

\* the HIGH reports of detection depend on ui_state and execution_context
\* only, which no step of a cycle writes: at the learner they are the ones
\* this cycle's detection appended
DetectedHighThisCycle ==
    \E i \in DOMAIN detect_anomalies :
        /\ detect_anomalies[i].severity = "HIGH"
        /\ detect_anomalies[i].action_id = last_action

\* a baseline after the sample x is folded into it
Folded(baselines, key, x) ==
    IF key \in DOMAIN baselines
    THEN to_dict(update(from_dict(baselines[key]), x))
    ELSE [mean |-> x, std_dev |-> 0, count |-> 1]

\* C29: the learner folds 0.0 into "<a>_success_rate" when this cycle detected
\* a HIGH anomaly attributed to the last executed action a, and 1.0 otherwise
C29_SuccessSample ==
    [][(Learning /\ HasStr(last_action)) =>
          knowledge'.baselines[The(last_action) \o Suffix_success_rate]
            = Folded(knowledge.baselines, The(last_action) \o Suffix_success_rate,
                     IF DetectedHighThisCycle THEN 0 ELSE One)]_vars

\* the metric names detection extracts from the observation of the cycle
Extracted == Elements(metric_names(ui_state.observation, last_action))

\* C30: no step removes a key from knowledge.baselines; detection leaves every
\* extracted metric with the count 1 when it was unknown and with its previous
\* count plus 1 otherwise, and the count is still that at the end of the cycle
C30_BaselineLifecycle ==
    [][/\ DOMAIN knowledge.baselines \subseteq DOMAIN knowledge'.baselines
       /\ (Detecting =>
              \A k \in Extracted :
                  /\ k \in DOMAIN knowledge'.baselines
                  /\ knowledge'.baselines[k].count
                       = IF k \in DOMAIN knowledge.baselines
                         THEN knowledge.baselines[k].count + 1
                         ELSE 1)
       /\ (pc \in {"route", "plan_action", "learn"} =>
              \A k \in Extracted :
                  /\ k \in DOMAIN knowledge.baselines
                  /\ knowledge'.baselines[k].count = knowledge.baselines[k].count)]_vars

----------------------------------------------------------------------------
(* DEEP_TEST and the planner *)

\* C31: the planner run on a copy of an AgentState that differs in
\* decision.control only (DEEP_TEST for CONTINUE) writes the same next_action
\* and the same risk scores
C31_DeepTestAdvisory ==
    (pc = "learn" /\ returned # None) =>
        /\ decision.control = "DEEP_TEST"
        /\ decision.next_action = The(returned).next_action
        /\ knowledge.risk_scores = The(returned).risk_scores

\* both runs have selected an action whose risk lies between the deep-test
\* risk and the planner's threshold
C31_Witness ==
    /\ pc = "learn"
    /\ returned # None
    /\ decision.control = "DEEP_TEST"
    /\ decision.next_action # None
    /\ Get(knowledge.risk_scores, The(decision.next_action).action_id, DefaultRisk)
         > DeepTestRisk

\* a value lies between two others, whichever is the larger
Between(x, a, b) == (a <= x /\ x <= b) \/ (b <= x /\ x <= a)

Updated == pc = "returned" /\ args.f = "update"

\* C32: BaselineMetrics.update on a baseline with count >= 0 and std_dev >= 0
\* returns count + 1, a mean between the old mean and the new value, equal to
\* the new value when the count was 0, and a std_dev >= 0; so every baseline
\* reached by a sequence of updates has count >= 0 and std_dev >= 0
C32_OnlineUpdate ==
    Updated =>
        /\ args.self.count >= 0 /\ args.self.std_dev >= 0
        /\ returned.count = args.self.count + 1
        /\ Between(returned.mean, args.self.mean, args.new_value)
        /\ (args.self.count = 0 => returned.mean = args.new_value)
        /\ returned.std_dev >= 0

\* every cycle so far decided to go on and was followed by the execution of
\* its action, which adds one to step_count (sessions start at step_count 0)
AllAdvanced == execution_context.step_count = cycles - 1

\* C33: when step_count grows by one after every cycle that does not decide
\* TERMINATE and max_steps stays as it is, a cycle deciding TERMINATE occurs
\* within max_steps - step_count + 1 cycles (the cycles 1 .. max_steps + 1 of
\* a session that starts at step_count 0 do not all go on), and every cycle
\* from the first one with step_count >= max_steps onward decides TERMINATE:
\* the limit, once reached, stays reached
C33_BoundedSession ==
    /\ []((CycleDone /\ decision.control # "TERMINATE" /\ AllAdvanced)
              => cycles <= execution_context.max_steps)
    /\ []((Routed /\ execution_context.step_count >= execution_context.max_steps)
              => decision.control = "TERMINATE")
    /\ [][(execution_context.step_count >= execution_context.max_steps)
              => (/\ execution_context'.max_steps = execution_context.max_steps
                  /\ execution_context'.step_count >= execution_context'.max_steps)]_vars

\* a session of max_steps = 1 whose second cycle was ended by the step limit,
\* observed again: the third cycle, offered actions, ends on the limit too
C33_Witness ==
    /\ CycleDone
    /\ cycles = execution_context.max_steps + 2
    /\ execution_context.step_count = execution_context.max_steps
    /\ ui_state.available_actions # <<>>
    /\ decision.control = "TERMINATE"
    /\ The(decision.reasoning).text = "Maximum steps reached"

LastThreeHigh ==
    /\ Len(anomalies) >= 3
    /\ \A i \in RecentPositions(3) : anomalies[i].severity = "HIGH"

\* C34: whenever the last 3 recorded anomalies are all HIGH, the rule "at
\* least 3 HIGH among the last 5" matches, so the router never terminates
\* with the reason "Three consecutive high-severity anomalies detected"
C34_SubsumedRule ==
    /\ LastThreeHigh => rule_repeated_high.fires
    /\ (Routed /\ decision.control = "TERMINATE")
           => The(decision.reasoning).text
                  # "Three consecutive high-severity anomalies detected"

\* three HIGH reports at the end of the log and no other among the last
\* five: the router terminates for the repeated reports
C34_Witness ==
    /\ Routed
    /\ LastThreeHigh
    /\ Cardinality(HighPositions(RecentPositions(5))) = 3
    /\ ui_state.available_actions # <<>>
    /\ execution_context.step_count < execution_context.max_steps
    /\ decision.control = "TERMINATE"
    /\ The(decision.reasoning).text = "Repeated high-severity anomalies"

\* the offered actions that were never executed and that the threshold admits
UnseenAdmitted ==
    {args.available_actions[i] : i \in {j \in Admitted :
                                           Executions(args.available_actions[j]) = 0}}

DetectedHigh ==
    {i \in DOMAIN detect_anomalies : detect_anomalies[i].severity = "HIGH"}

\* C36: whenever the router decides CONTINUE ("No anomalies or termination
\* conditions detected"), the detection step of the same cycle appended no
\* anomaly to the log
C36_ContinueMeansClean ==
    (Routed /\ decision.control = "CONTINUE") => DetectedHigh = {}

----------------------------------------------------------------------------
(* What a cycle does to the risk scores *)

\* the actions the last n anomalies of the log are attributed to
AttributedIn(n) ==
    {The(anomalies[i].action_id) :
        i \in {j \in RecentPositions(n) : HasStr(anomalies[j].action_id)}}

\* the entries a step writes or creates
RiskChanged ==
    {a \in DOMAIN knowledge'.risk_scores :
        a \notin DOMAIN knowledge.risk_scores
        \/ knowledge'.risk_scores[a] # knowledge.risk_scores[a]}

CountedOnce == risks_after(EmptyDict, anomalies)

\* this cycle's detection appended nothing: no report, and no metric whose
\* stability check could have made one
NothingDetected ==
    /\ detect_anomalies = <<>>
    /\ extract_metrics_from_observation(ui_state.observation, last_action).names = <<>>

\* C38: each recorded anomaly raises the risk score of its action in only one
\* cycle (in a session that starts without anomalies and risk scores no score
\* is above the one that counts every recorded anomaly once), and a cycle
\* that goes on and whose detection appended no anomaly leaves
\* knowledge.risk_scores as it was before the cycle
C38_NoDoubleCounting ==
    /\ [](\A a \in DOMAIN knowledge.risk_scores :
              /\ a \in DOMAIN CountedOnce
              /\ knowledge.risk_scores[a] <= CountedOnce[a])
    /\ [][(pc = "plan_action" /\ NothingDetected)
              => knowledge'.risk_scores = knowledge.risk_scores]_vars

----------------------------------------------------------------------------
(* Drift *)

\* the stability check of this cycle reports a violation for some metric
\* (asked before detection replaces the baselines)
StabilityViolated ==
    LET extracted == extract_metrics_from_observation(ui_state.observation, last_action)
    IN  \E i \in DOMAIN extracted.names :
            stability(extracted.names[i], extracted.metrics)[1].violated

EndsWithDrift ==
    /\ anomalies # <<>>
    /\ anomalies[Len(anomalies)].severity = "MEDIUM"
    /\ anomalies[Len(anomalies)].category = "REGRESSION"

\* C39: in a cycle whose baseline stability check reports a violation for
\* some metric, a MEDIUM / REGRESSION anomaly is appended (the last of the
\* log the router reads), and the control decision of the same cycle is
\* DEEP_TEST or TERMINATE, never CONTINUE
C39_DriftEscalates ==
    [][/\ ((pc = "detect_anomalies" /\ pc' = "route" /\ StabilityViolated)
              => (Len(anomalies') > Len(anomalies) /\ EndsWithDrift'))
       /\ ((pc = "route" /\ EndsWithDrift)
              => decision'.control \in {"DEEP_TEST", "TERMINATE"})]_vars

\* the first cycle of a session that started without anomalies: element_count
\* left its baseline, the one report of the log is the drift, and the cycle
\* goes on to a deep test
C39_Witness ==
    /\ CycleDone
    /\ cycles = 1
    /\ Len(anomalies) = 1
    /\ EndsWithDrift
    /\ decision.control = "DEEP_TEST"


====
